---- MODULE Spec2Model ----
(***************************************************************************)
(* Model of eng_pdf_info_crawling.py: the per-document worker              *)
(* (process_pdf / process_sentence, specification Spec), the pool          *)
(* orchestrator (process_all_pdfs / __main__, specification SpecPool) and  *)
(* the sentence extractor (extract_sentences_from_pdf, specification       *)
(* SpecExtract).                                                           *)
(*                                                                         *)
(* Strings that the code inspects character by character (the provenance   *)
(* text of a result block, the keys cut out of it, the text of a page) are *)
(* sequences of characters, a character being a one-character string or,   *)
(* outside ASCII, the name of its code point ("U+AC00"); opaque texts       *)
(* (passage text, sentence handed to the search, error description) are    *)
(* plain strings.                                                          *)
(***************************************************************************)
EXTENDS Integers, Sequences, FiniteSets, TLC

VARIABLES
    \* ---- one process_pdf call (a pool worker) ----
    pc,          \* position in process_pdf / process_sentence
    sentences,   \* process_pdf: the list returned by extract_sentences_from_pdf
    idx,         \* process_pdf: index of the sentence of the for loop (0: none yet)
    attempt,     \* process_sentence: attempt
    driver,      \* process_pdf: the session its variable driver holds (0: unbound)
    sdriver,     \* process_sentence: the session its local driver holds
    sess,        \* every session opened so far: sess[id] is "live" or "closed"
    data,        \* process_pdf: data, key1 -> key2 -> key3 -> text
    error_log,   \* process_pdf: error_log
    blocks,      \* process_sentence: result tables still to be visited by the for loop
    log,         \* history: the remote operations made for the current sentence
    hist,        \* history: one record per sentence that process_sentence has left
    entry,       \* history: data, error_log length and driver when process_sentence was called
    ntables,     \* process_sentence: len(tables) of line 122 (0 before the lookup)
    cur_table,   \* process_sentence: the loop variable table of line 129
    teardown,    \* safe_quit: how the driver.quit() of the call just made ended
    written,     \* history: key triple -> passage text of the last MatchRecord
                 \*          emitted with it (lines 141-149)
    \* ---- one extract_sentences_from_pdf call ----
    xpc,         \* position in extract_sentences_from_pdf
    pageno,      \* number of pages read so far
    text,        \* text: the page read last, after lines 187-193
    page_sentences,      \* page_sentences of line 194 for that page
    processed_sentences, \* processed_sentences of that page
    ci,                  \* number of passes the loop of line 196 has made
    ext_sentences,       \* sentences, the list being returned
    pdf_pages,           \* history: the raw text of every page read so far
    \* ---- process_all_pdfs and __main__ ----
    mpc,         \* position in __main__ / process_all_pdfs
    task,        \* pool: state of the process_pdf task of each document
    pdf_results, \* pool.map: the result slot of each document
    heap,        \* the dict objects of the parent process, by object identity
    all_errors,  \* process_all_pdfs: all_errors
    mi,          \* process_all_pdfs: index of the for loop over pdf_results
    order,       \* history: documents in the order their workers completed
    files,       \* the files written by save_data
    started,     \* history: the documents in the order their process_pdf task began
    merged,      \* history: the documents in the order their result was merged
    live,        \* pool: the documents whose worker holds a live session
    \* ---- one insert_json_to_db call ----
    dbpc,        \* position in insert_json_to_db
    p_item,      \* the item of json_data the loop of line 36 is at: p_id, p_value
    seen_ids,    \* history: the keys of json_data the loop has been at
    executed,    \* history: the parameters of the INSERTs executed in that pass
    commits      \* history: number of session.commit() calls made

wvars == <<pc, sentences, idx, attempt, driver, sdriver, sess, data, error_log,
           blocks, log, hist, entry, ntables, cur_table, teardown, written>>
xvars == <<xpc, pageno, text, page_sentences, processed_sentences, ci,
           ext_sentences, pdf_pages>>
pvars == <<mpc, task, pdf_results, heap, all_errors, mi, order, files,
           started, merged, live>>
dvars == <<dbpc, p_item, seen_ids, executed, commits>>
vars == <<pc, sentences, idx, attempt, driver, sdriver, sess, data, error_log,
          blocks, log, hist, entry, ntables, cur_table, teardown, written, xpc,
          pageno, text,
          page_sentences, processed_sentences, ci, ext_sentences, pdf_pages,
          mpc, task,
          pdf_results, heap, all_errors, mi, order, files, started, merged, live,
          dbpc, p_item, seen_ids, executed, commits>>

(***************************************************************************)
(* Bounds of the model.                                                    *)
(***************************************************************************)
MaxSentences == 2
MaxBlocks == 2
NumDocs == 2
MaxWrites == 2
MaxPages == 3
MaxTokens == 3

(***************************************************************************)
(* Program constants.                                                      *)
(***************************************************************************)
max_attempts == 3
PoolProcesses == 6
MinSpaces == 3

(***************************************************************************)
(* Small input sets.                                                       *)
(***************************************************************************)
SentenceTexts == {"s1", "s2"}
PassageTexts == {"x", "y"}
ThisPdf == "doc.pdf"

\* What follows "...: " on the provenance line of a result block (group 1 of
\* the regular expression): "A,B,1", " A , C ,1 " and the two-field "A,B".
SourceGroups ==
    { <<"A", ",", "B", ",", "1">>,
      <<"A", " ", ",", " ", "C", " ", ",", "1", " ">>,
      <<"A", ",", "B">> }

\* A result table: src says whether the provenance cell exists and matches
\* the pattern, eng whether the passage cell exists.
Tables ==
    [src : {"match"}, group : SourceGroups, hasEng : {TRUE}, eng : PassageTexts]
    \cup [src : {"match"}, group : SourceGroups, hasEng : {FALSE}, eng : {""}]
    \cup [src : {"none", "nomatch"}, group : {<<>>}, hasEng : {TRUE}, eng : {"x"}]

(***************************************************************************)
(* Dictionaries as functions.                                              *)
(***************************************************************************)
EmptyDict == <<>>

\* The value of a local variable that holds nothing yet.
Unbound == <<>>

Put(m, k, v) == [x \in (DOMAIN m) \cup {k} |-> IF x = k THEN v ELSE m[x]]

Last(s) == s[Len(s)]

(***************************************************************************)
(* str.strip and str.split(",") on character sequences.                    *)
(***************************************************************************)
IsSpace(c) == c \in {" ", "\t", "\n"}

RECURSIVE LStrip(_)
LStrip(s) == IF s # <<>> /\ IsSpace(Head(s)) THEN LStrip(Tail(s)) ELSE s

RECURSIVE RStrip(_)
RStrip(s) ==
    IF s # <<>> /\ IsSpace(Last(s)) THEN RStrip(SubSeq(s, 1, Len(s) - 1)) ELSE s

Strip(s) == RStrip(LStrip(s))

RECURSIVE Split(_)
Split(s) ==
    IF \A i \in 1..Len(s) : s[i] # ","
    THEN <<s>>
    ELSE LET i == CHOOSE i \in 1..Len(s) :
                     s[i] = "," /\ \A j \in 1..(i - 1) : s[j] # ","
         IN  <<SubSeq(s, 1, i - 1)>> \o Split(SubSeq(s, i + 1, Len(s)))

(***************************************************************************)
(* process_sentence, lines 129-164: one result table.                      *)
(***************************************************************************)
\* A table loop that found the keys and wrote nothing.
Store_Skip(d, key1, key2, key3, english_text) == d

\* A table loop that starts the maps under key1 afresh at every record.
Store_Fresh(d, key1, key2, key3, english_text) ==
    Put(d, key1, Put(EmptyDict, key2, Put(EmptyDict, key3, english_text)))

Store(d, key1, key2, key3, english_text) ==
    LET d1 == IF key1 \in DOMAIN d THEN d ELSE Put(d, key1, EmptyDict)
        d2 == IF key2 \in DOMAIN d1[key1]
              THEN d1
              ELSE [d1 EXCEPT ![key1] = Put(d1[key1], key2, EmptyDict)]
    IN  [d2 EXCEPT ![key1][key2] = Put(d2[key1][key2], key3, english_text)]

\* A table loop that stores a record without looking for the passage cell.
ProcessTable_NoPassageCheck(d, table) ==
    IF table.src # "match"
    THEN d
    ELSE LET extracted_info == Split(Strip(table.group))
         IN  IF Len(extracted_info) >= 3
             THEN Store(d, Strip(extracted_info[1]), Strip(extracted_info[2]),
                        Strip(extracted_info[3]), table.eng)
             ELSE d

ProcessTable(d, table) ==
    IF table.src # "match"
    THEN d
    ELSE LET extracted_info == Split(Strip(table.group))
         IN  IF Len(extracted_info) >= 3 /\ table.hasEng
             THEN Store(d, Strip(extracted_info[1]), Strip(extracted_info[2]),
                        Strip(extracted_info[3]), table.eng)
             ELSE d

\* The tables of a result page that yield a MatchRecord (lines 134-149), and
\* the record's keys.
Emits(table) ==
    /\ table.src = "match"
    /\ Len(Split(Strip(table.group))) >= 3
    /\ table.hasEng

KeysOf(table) ==
    LET extracted_info == Split(Strip(table.group))
    IN  [i \in 1..3 |-> Strip(extracted_info[i])]

(***************************************************************************)
(* Sessions.                                                               *)
(***************************************************************************)
Live(s, id) == id \in DOMAIN s /\ s[id] = "live"

\* safe_quit: driver.quit() tears the session down whether or not it
\* raises (teardown is "ok" or "err"); the error is swallowed and the 5 s
\* sleep follows.  The log keeps the two steps, quit and sleep.
safe_quit_Leak(s, id) == s

safe_quit(s, id) == [s EXCEPT ![id] = "closed"]

QuitEvents_NoSleep(id) == << [op |-> "quit", res |-> "ok", sid |-> id] >>

QuitEvents(id) == << [op |-> "quit", res |-> "ok", sid |-> id],
                     [op |-> "sleep", res |-> "ok", sid |-> id] >>

\* init_driver, when webdriver.Chrome() returns.
init_driver(s) == Append(s, "live")

Queries(l) == {i \in DOMAIN l : l[i].op = "query"}
Opens(l) == {i \in DOMAIN l : l[i].op = "open"}

\* The while test of line 70, and where control goes from it.
WhileTest_Off(a) == IF a <= max_attempts THEN "query" ELSE "tables"

WhileTest_Abort(a) == IF a < max_attempts THEN "query" ELSE "raised"

WhileTest(a) == IF a < max_attempts THEN "query" ELSE "tables"

\* process_pdf, lines 236-243: the except clause of the sentence loop.
CatchSentence_Drop(el, pdf_path, sentence, e) == el

CatchSentence(el, pdf_path, sentence, e) ==
    Append(el, [pdf_file |-> pdf_path, search_term |-> sentence, error |-> e])

(***************************************************************************)
(* History bookkeeping: the record left when process_sentence is left.     *)
(***************************************************************************)
HistRec(o, l, el) ==
    [sentence |-> sentences[idx], outcome |-> o, errlen |-> Len(el)]

\* Number of entries appended to error_log while sentence i was processed.
ErrsOf(i) == hist[i].errlen - (IF i = 1 THEN 0 ELSE hist[i - 1].errlen)

LastQueryMatched(l) ==
    Queries(l) # {} /\ \E i \in Queries(l) :
        l[i].res = "Match" /\ \A j \in Queries(l) : j <= i

(***************************************************************************)
(* process_pdf, line 231: extract_sentences_from_pdf(pdf_path).  The open  *)
(* of the file or the PDF parser may raise; nothing catches it.            *)
(***************************************************************************)
Extract ==
    /\ pc = "extract"
    /\ \/ \E n \in 0..MaxSentences : \E ss \in [1..n -> SentenceTexts] :
            /\ sentences' = ss
            /\ pc' = "init"
       \/ /\ pc' = "raised"
          /\ UNCHANGED sentences
    /\ UNCHANGED <<idx, attempt, driver, sdriver, sess, data, error_log, blocks,
                   log, hist>>
    /\ UNCHANGED <<entry, ntables, cur_table>>
    /\ UNCHANGED teardown
    /\ UNCHANGED written
    /\ UNCHANGED pvars
    /\ UNCHANGED xvars
    /\ UNCHANGED dvars

(***************************************************************************)
(* process_pdf, line 232: driver, wait = init_driver(), outside any try.   *)
(***************************************************************************)
InitDriverPdf ==
    /\ pc = "init"
    /\ \/ /\ sess' = init_driver(sess)
          /\ driver' = Len(sess')
          /\ pc' = "for"
       \/ /\ pc' = "raised"
          /\ UNCHANGED <<sess, driver>>
    /\ UNCHANGED <<sentences, idx, attempt, sdriver, data, error_log, blocks,
                   log, hist>>
    /\ UNCHANGED <<entry, ntables, cur_table>>
    /\ UNCHANGED teardown
    /\ UNCHANGED written
    /\ UNCHANGED pvars
    /\ UNCHANGED xvars
    /\ UNCHANGED dvars

(***************************************************************************)
(* process_pdf, lines 233-235: the next sentence is handed to              *)
(* process_sentence with the session process_pdf holds (lines 66-70).      *)
(***************************************************************************)
\* The for loop of line 233 goes from one sentence of the list to the next.
NextSentence_Skip(i) == i + 2

NextSentence(i) == i + 1

CallSentence ==
    /\ pc = "for"
    /\ idx < Len(sentences)
    /\ idx' = NextSentence(idx)
    /\ sdriver' = driver
    /\ attempt' = 0
    /\ log' = <<>>
    /\ pc' = WhileTest(0)
    /\ entry' = [data |-> data, errlen |-> Len(error_log), driver |-> driver]
    /\ ntables' = 0
    /\ UNCHANGED <<sentences, driver, sess, data, error_log, blocks, hist,
                   cur_table, teardown>>
    /\ UNCHANGED written
    /\ UNCHANGED pvars
    /\ UNCHANGED xvars
    /\ UNCHANGED dvars

(***************************************************************************)
(* process_sentence, lines 71-110 and 113-116: one pass of the try block.  *)
(* Every command on a session that has been quit raises.                   *)
(***************************************************************************)
QueryOutcomes(s, id) ==
    IF Live(s, id) THEN {"Match", "Mismatch", "Fault"} ELSE {"Fault"}

Query ==
    /\ pc = "query"
    /\ \E r \in QueryOutcomes(sess, sdriver) :
          /\ log' = Append(log, [op |-> "query", res |-> r, sid |-> sdriver])
          /\ \/ /\ r = "Match"
                /\ pc' = "tables"
                /\ UNCHANGED attempt
             \/ /\ r = "Mismatch"
                /\ attempt' = attempt + 1
                /\ pc' = "else_quit"
             \/ /\ r = "Fault"
                /\ attempt' = attempt + 1
                /\ pc' = "exc_quit"
    /\ UNCHANGED <<sentences, idx, driver, sdriver, sess, data, error_log,
                   blocks, hist>>
    /\ UNCHANGED <<entry, ntables, cur_table>>
    /\ UNCHANGED teardown
    /\ UNCHANGED written
    /\ UNCHANGED pvars
    /\ UNCHANGED xvars
    /\ UNCHANGED dvars

(***************************************************************************)
(* process_sentence, line 111: safe_quit(driver) of the else branch.       *)
(***************************************************************************)
ElseQuit ==
    /\ pc = "else_quit"
    /\ log' = log \o QuitEvents(sdriver)
    /\ teardown' \in {"ok", "err"}
    /\ sess' = safe_quit(sess, sdriver)
    /\ pc' = "else_open"
    /\ UNCHANGED <<sentences, idx, attempt, driver, sdriver, data, error_log,
                   blocks, hist>>
    /\ UNCHANGED <<entry, ntables, cur_table>>
    /\ UNCHANGED written
    /\ UNCHANGED pvars
    /\ UNCHANGED xvars
    /\ UNCHANGED dvars

(***************************************************************************)
(* process_sentence, line 112: init_driver() of the else branch.  It is    *)
(* inside the try: when it raises, the except clause of line 113 runs      *)
(* (attempt += 1) and goes on to its own safe_quit / init_driver.          *)
(***************************************************************************)
ElseOpen ==
    /\ pc = "else_open"
    /\ \/ /\ sess' = init_driver(sess)
          /\ sdriver' = Len(sess')
          /\ log' = Append(log, [op |-> "open", res |-> "ok", sid |-> Len(sess')])
          /\ pc' = WhileTest(attempt)
          /\ UNCHANGED attempt
       \/ /\ log' = Append(log, [op |-> "open", res |-> "fail", sid |-> 0])
          /\ attempt' = attempt + 1
          /\ pc' = "exc_quit"
          /\ UNCHANGED <<sess, sdriver>>
    /\ UNCHANGED <<sentences, idx, driver, data, error_log, blocks, hist>>
    /\ UNCHANGED <<entry, ntables, cur_table>>
    /\ teardown' = "none"
    /\ UNCHANGED written
    /\ UNCHANGED pvars
    /\ UNCHANGED xvars
    /\ UNCHANGED dvars

(***************************************************************************)
(* process_sentence, line 117: safe_quit(driver) of the except clause.     *)
(***************************************************************************)
ExcQuit ==
    /\ pc = "exc_quit"
    /\ log' = log \o QuitEvents(sdriver)
    /\ teardown' \in {"ok", "err"}
    /\ sess' = safe_quit(sess, sdriver)
    /\ pc' = "exc_open"
    /\ UNCHANGED <<sentences, idx, attempt, driver, sdriver, data, error_log,
                   blocks, hist>>
    /\ UNCHANGED <<entry, ntables, cur_table>>
    /\ UNCHANGED written
    /\ UNCHANGED pvars
    /\ UNCHANGED xvars
    /\ UNCHANGED dvars

(***************************************************************************)
(* process_sentence, line 118: init_driver() of the except clause.  When   *)
(* it raises, the exception leaves process_sentence and the except clause  *)
(* of process_pdf (lines 236-243) records it; process_pdf's driver is not  *)
(* rebound.                                                                *)
(***************************************************************************)
ExcOpen ==
    /\ pc = "exc_open"
    /\ \/ /\ sess' = init_driver(sess)
          /\ sdriver' = Len(sess')
          /\ log' = Append(log, [op |-> "open", res |-> "ok", sid |-> Len(sess')])
          /\ pc' = WhileTest(attempt)
          /\ UNCHANGED <<error_log, hist>>
       \/ /\ log' = Append(log, [op |-> "open", res |-> "fail", sid |-> 0])
          /\ error_log' = CatchSentence(error_log, ThisPdf, sentences[idx],
                                        "SessionCreationError")
          /\ hist' = Append(hist, HistRec("Escaped", log', error_log'))
          /\ pc' = "for"
          /\ UNCHANGED <<sess, sdriver>>
    /\ UNCHANGED <<sentences, idx, attempt, driver, data, blocks>>
    /\ UNCHANGED <<entry, ntables, cur_table>>
    /\ teardown' = "none"
    /\ UNCHANGED written
    /\ UNCHANGED pvars
    /\ UNCHANGED xvars
    /\ UNCHANGED dvars

(***************************************************************************)
(* process_sentence, lines 121-128 and 165-168: the result tables are      *)
(* looked up on whatever session the loop has left.  After a match the     *)
(* page holds any number of tables; after the loop ran out of attempts the *)
(* session is a new one that has loaded no page.  No tables, or an error   *)
(* of the lookup, returns at once.                                         *)
(***************************************************************************)
SentenceOutcome(l) == IF LastQueryMatched(l) THEN "Succeeded" ELSE "Exhausted"

\* A process_sentence that treated an empty result page as a failure.
FindTables_ZeroRaises ==
    /\ pc = "tables"
    /\ \/ /\ driver' = sdriver
          /\ error_log' = IF LastQueryMatched(log)
                          THEN CatchSentence(error_log, ThisPdf, sentences[idx],
                                             "NoResultBlocks")
                          ELSE error_log
          /\ hist' = Append(hist, HistRec(SentenceOutcome(log), log, error_log'))
          /\ pc' = "for"
          /\ UNCHANGED <<blocks, ntables, cur_table>>
       \/ /\ LastQueryMatched(log)
          /\ \E n \in 1..MaxBlocks : blocks' = n /\ ntables' = n
          /\ \E t \in Tables : cur_table' = t
          /\ pc' = "table"
          /\ UNCHANGED <<driver, hist, error_log>>
    /\ UNCHANGED <<sentences, idx, attempt, sdriver, sess, data, log,
                   entry, teardown>>
    /\ UNCHANGED written
    /\ UNCHANGED pvars
    /\ UNCHANGED xvars
    /\ UNCHANGED dvars

\* A process_sentence whose table lookup finds the tables of a page loaded
\* earlier, also when the while loop ended by its test.
FindTables_StalePage ==
    /\ pc = "tables"
    /\ \/ /\ driver' = sdriver
          /\ hist' = Append(hist, HistRec(SentenceOutcome(log), log, error_log))
          /\ pc' = "for"
          /\ UNCHANGED <<blocks, ntables, cur_table>>
       \/ /\ \E n \in 1..MaxBlocks : blocks' = n /\ ntables' = n
          /\ \E t \in Tables : cur_table' = t
          /\ pc' = "table"
          /\ UNCHANGED <<driver, hist>>
    /\ UNCHANGED <<sentences, idx, attempt, sdriver, sess, data, error_log, log,
                   entry, teardown>>
    /\ UNCHANGED written
    /\ UNCHANGED pvars
    /\ UNCHANGED xvars
    /\ UNCHANGED dvars

FindTables ==
    /\ pc = "tables"
    /\ \/ /\ driver' = sdriver
          /\ hist' = Append(hist, HistRec(SentenceOutcome(log), log, error_log))
          /\ pc' = "for"
          /\ UNCHANGED <<blocks, ntables, cur_table>>
       \/ /\ LastQueryMatched(log)
          /\ \E n \in 1..MaxBlocks : blocks' = n /\ ntables' = n
          /\ \E t \in Tables : cur_table' = t
          /\ pc' = "table"
          /\ UNCHANGED <<driver, hist>>
    /\ UNCHANGED <<sentences, idx, attempt, sdriver, sess, data, error_log, log,
                   entry, teardown>>
    /\ UNCHANGED written
    /\ UNCHANGED pvars
    /\ UNCHANGED xvars
    /\ UNCHANGED dvars

(***************************************************************************)
(* process_sentence, lines 129-164 and 168: one pass of the for loop over  *)
(* the tables, on the table the loop variable holds; after the last one    *)
(* process_sentence returns driver, wait.                                  *)
(***************************************************************************)
VisitTable ==
    /\ pc = "table"
    /\ data' = ProcessTable(data, cur_table)
    /\ blocks' = blocks - 1
    /\ \/ /\ blocks' > 0
          /\ \E t \in Tables : cur_table' = t
          /\ UNCHANGED <<pc, driver, hist>>
       \/ /\ blocks' = 0
          /\ driver' = sdriver
          /\ hist' = Append(hist, HistRec("Succeeded", log, error_log))
          /\ pc' = "for"
          /\ cur_table' = Unbound
    /\ UNCHANGED <<sentences, idx, attempt, sdriver, sess, error_log, log,
                   entry, ntables, teardown>>
    /\ written' = IF Emits(cur_table)
                  THEN Put(written, KeysOf(cur_table), cur_table.eng)
                  ELSE written
    /\ UNCHANGED pvars
    /\ UNCHANGED xvars
    /\ UNCHANGED dvars

(***************************************************************************)
(* process_pdf, lines 245-247: safe_quit(driver) and the return.           *)
(***************************************************************************)
FinalQuit ==
    /\ pc = "for"
    /\ idx = Len(sentences)
    /\ log' = log \o QuitEvents(driver)
    /\ teardown' \in {"ok", "err"}
    /\ sess' = safe_quit(sess, driver)
    /\ pc' = "returned"
    /\ UNCHANGED <<sentences, idx, attempt, driver, sdriver, data, error_log,
                   blocks, hist>>
    /\ UNCHANGED <<entry, ntables, cur_table>>
    /\ UNCHANGED written
    /\ UNCHANGED pvars
    /\ UNCHANGED xvars
    /\ UNCHANGED dvars

(***************************************************************************)
(* Specification of one process_pdf call.                                  *)
(***************************************************************************)
\* insert_json_to_db is not part of a run of the crawler.
InsertIdle ==
    /\ dbpc = "idle"
    /\ p_item = <<>>
    /\ seen_ids = {}
    /\ executed = <<>>
    /\ commits = 0

ExtractIdle ==
    /\ xpc = "idle"
    /\ pageno = 0
    /\ text = <<>>
    /\ page_sentences = <<>>
    /\ processed_sentences = <<>>
    /\ ci = 0
    /\ ext_sentences = <<>>
    /\ pdf_pages = <<>>

PoolIdle ==
    /\ mpc = "idle"
    /\ task = <<>>
    /\ pdf_results = <<>>
    /\ heap = <<>>
    /\ all_errors = <<>>
    /\ mi = 0
    /\ order = <<>>
    /\ files = {}
    /\ started = <<>>
    /\ merged = <<>>
    /\ live = {}

Init ==
    /\ InsertIdle
    /\ pc = "extract"
    /\ sentences = <<>>
    /\ idx = 0
    /\ attempt = 0
    /\ driver = 0
    /\ sdriver = 0
    /\ sess = <<>>
    /\ data = EmptyDict
    /\ error_log = <<>>
    /\ blocks = 0
    /\ log = <<>>
    /\ hist = <<>>
    /\ entry = [data |-> EmptyDict, errlen |-> 0, driver |-> 0]
    /\ ntables = 0
    /\ cur_table = Unbound
    /\ teardown = "none"
    /\ written = <<>>
    /\ ExtractIdle
    /\ PoolIdle

Next ==
    \/ Extract
    \/ InitDriverPdf
    \/ CallSentence
    \/ Query
    \/ ElseQuit
    \/ ElseOpen
    \/ ExcQuit
    \/ ExcOpen
    \/ FindTables
    \/ VisitTable
    \/ FinalQuit

Spec == Init /\ [][Next]_vars

\* Every call the worker makes (a page load, a wait, a sleep, a session
\* open or quit) returns, with a result or with an exception: the step in
\* hand is eventually taken.
FairSpec == Spec /\ WF_vars(Next)

(***************************************************************************)
(* The parent process: process_all_pdfs and __main__.                      *)
(*                                                                         *)
(* Python dicts are objects: merge_results stores references to the dicts  *)
(* of dict2 in dict1 and later changes them in place.  heap maps the       *)
(* identity of every dict of the parent to its items; an item is a text    *)
(* (leaf) or a reference to another dict.                                  *)
(***************************************************************************)
LeafItem(t) == [leaf |-> TRUE, txt |-> t, ref |-> <<>>]

RefItem(o) == [leaf |-> FALSE, txt |-> "", ref |-> o]

\* results = {} of line 258.
AggRoot == <<0>>

\* The dict objects made when the result of document d (a three-level map)
\* arrives, unpickled, in the parent: <<d>> is res["data"].
Unpickle(h, d, tree) ==
    LET ids == {<<d>>}
               \cup {<<d, k1>> : k1 \in DOMAIN tree}
               \cup UNION {{<<d, k1, k2>> : k2 \in DOMAIN tree[k1]} : k1 \in DOMAIN tree}
        obj(o) ==
            IF Len(o) = 1
            THEN [k1 \in DOMAIN tree |-> RefItem(<<d, k1>>)]
            ELSE IF Len(o) = 2
            THEN [k2 \in DOMAIN tree[o[2]] |-> RefItem(<<d, o[2], k2>>)]
            ELSE [k3 \in DOMAIN tree[o[2]][o[3]] |-> LeafItem(tree[o[2]][o[3]][k3])]
    IN  [o \in (DOMAIN h) \cup ids |-> IF o \in ids THEN obj(o) ELSE h[o]]

\* The value of an item: a text, or the map of the dict it refers to.
RECURSIVE Deref(_, _)
Deref(h, item) ==
    IF item.leaf
    THEN item.txt
    ELSE [k \in DOMAIN h[item.ref] |-> Deref(h, h[item.ref][k])]

\* The three-level map held by the dict object o.
MapOf(h, o) == Deref(h, RefItem(o))

\* Leaf paths <<k1, k2, k3>> of a three-level map.
Leaves(m) ==
    UNION {UNION {{<<k1, k2, k3>> : k3 \in DOMAIN m[k1][k2]} :
                  k2 \in DOMAIN m[k1]} : k1 \in DOMAIN m}

At(m, path) == m[path[1]][path[2]][path[3]]

(***************************************************************************)
(* merge_results, lines 211-221, on the heap: dict1 and dict2 are object   *)
(* identities; the result is the heap after the call.                      *)
(***************************************************************************)
\* Variant that keeps the value dict1 already holds at a key.
RECURSIVE merge_keep_items(_, _, _, _)
merge_keep_items(h, dict1, dict2, keys) ==
    IF keys = {}
    THEN h
    ELSE LET key == CHOOSE k \in keys : TRUE
             value == h[dict2][key]
             h1 == IF key \in DOMAIN h[dict1]
                   THEN IF ~h[dict1][key].leaf /\ ~value.leaf
                        THEN merge_keep_items(h, h[dict1][key].ref, value.ref,
                                              DOMAIN h[value.ref])
                        ELSE h
                   ELSE [h EXCEPT ![dict1] = Put(h[dict1], key, value)]
         IN  merge_keep_items(h1, dict1, dict2, keys \ {key})

merge_results_keep(h, dict1, dict2) ==
    merge_keep_items(h, dict1, dict2, DOMAIN h[dict2])

\* Variant that does not recurse: dict1.update(dict2).
merge_results_update(h, dict1, dict2) ==
    [h EXCEPT ![dict1] =
        [k \in (DOMAIN h[dict1]) \cup (DOMAIN h[dict2]) |->
            IF k \in DOMAIN h[dict2] THEN h[dict2][k] ELSE h[dict1][k]]]

\* Variant that makes dict1 a copy of dict2: dict1.clear(), then
\* dict1.update(dict2).
merge_results_assign(h, dict1, dict2) == [h EXCEPT ![dict1] = h[dict2]]

RECURSIVE merge_items(_, _, _, _)
merge_items(h, dict1, dict2, keys) ==
    IF keys = {}
    THEN h
    ELSE LET key == CHOOSE k \in keys : TRUE
             value == h[dict2][key]
             h1 == IF /\ key \in DOMAIN h[dict1]
                      /\ ~h[dict1][key].leaf
                      /\ ~value.leaf
                   THEN merge_items(h, h[dict1][key].ref, value.ref,
                                    DOMAIN h[value.ref])
                   ELSE [h EXCEPT ![dict1] = Put(h[dict1], key, value)]
         IN  merge_items(h1, dict1, dict2, keys \ {key})

merge_results(h, dict1, dict2) == merge_items(h, dict1, dict2, DOMAIN h[dict2])

(***************************************************************************)
(* What one process_pdf call can return to the pool: the maps that         *)
(* process_sentence builds with at most MaxWrites result tables, and an    *)
(* error list of the entries process_pdf appends.                          *)
(***************************************************************************)
RECURSIVE DataWithin(_)
DataWithin(n) ==
    IF n = 0
    THEN {EmptyDict}
    ELSE LET prev == DataWithin(n - 1)
         IN  prev \cup {ProcessTable(d, t) : d \in prev, t \in Tables}

PartialData == DataWithin(MaxWrites)

\* The error lists process_pdf can return: none, one entry, the same
\* sentence failing twice in the same way, two sentences failing.
PartialErrors(d) ==
    LET e1 == CatchSentence(<<>>, d, "s1", "SessionCreationError")
        e2 == CatchSentence(<<>>, d, "s2", "SessionCreationError")
    IN  {<<>>, e1,
         CatchSentence(e1, d, "s1", "SessionCreationError"),
         CatchSentence(e2, d, "s1", "SessionCreationError")}

Docs == DOMAIN task

Ended(d) == task[d].st \in {"done", "failed"}

\* pool.map returns the results as a list in the order of pdf_files: the
\* i-th result is that of the i-th document.
ResultAt_Completion(i) == order[i]

ResultAt(i) == i

(***************************************************************************)
(* process_all_pdfs, lines 255-260: the documents found by glob, the empty *)
(* aggregate, the pool.                                                    *)
(***************************************************************************)
Glob ==
    /\ mpc = "glob"
    /\ \E n \in 0..NumDocs :
          /\ task' = [d \in 1..n |-> [st |-> "pending", data |-> EmptyDict,
                                      errors |-> <<>>]]
          /\ pdf_results' = [d \in 1..n |-> [data |-> <<>>, errors |-> <<>>]]
    /\ heap' = [o \in {AggRoot} |-> EmptyDict]
    /\ all_errors' = <<>>
    /\ mpc' = "map"
    /\ UNCHANGED <<mi, order, files>>
    /\ UNCHANGED <<started, merged, live>>
    /\ UNCHANGED wvars
    /\ UNCHANGED xvars
    /\ UNCHANGED dvars

(***************************************************************************)
(* Pool(processes=6): an idle pool process takes the next task of the      *)
(* queue, process_pdf of the next document.                                *)
(***************************************************************************)
\* A pool that starts a task for every document at once.
Start_Unbounded(d) ==
    /\ mpc = "map"
    /\ task[d].st = "pending"
    /\ \A e \in Docs : e < d => task[e].st # "pending"
    /\ task' = [task EXCEPT ![d].st = "running"]
    /\ UNCHANGED <<mpc, pdf_results, heap, all_errors, mi, order, files>>
    /\ started' = Append(started, d)
    /\ UNCHANGED <<merged, live>>
    /\ UNCHANGED wvars
    /\ UNCHANGED xvars
    /\ UNCHANGED dvars

Start(d) ==
    /\ mpc = "map"
    /\ task[d].st = "pending"
    /\ \A e \in Docs : e < d => task[e].st # "pending"
    /\ Cardinality({e \in Docs : task[e].st = "running"}) < PoolProcesses
    /\ task' = [task EXCEPT ![d].st = "running"]
    /\ UNCHANGED <<mpc, pdf_results, heap, all_errors, mi, order, files>>
    /\ started' = Append(started, d)
    /\ UNCHANGED <<merged, live>>
    /\ UNCHANGED wvars
    /\ UNCHANGED xvars
    /\ UNCHANGED dvars

(***************************************************************************)
(* A process_pdf call ends, in any order among the running ones: it        *)
(* returns {"data", "errors"} (line 247), stored in the slot of its        *)
(* document, or it raises (lines 231, 232).  Its session is closed by then *)
(* (line 245), or was never opened.                                        *)
(***************************************************************************)
Finish(d) ==
    /\ mpc = "map"
    /\ task[d].st = "running"
    /\ d \notin live
    /\ \/ \E m \in PartialData : \E el \in PartialErrors(d) :
            /\ task' = [task EXCEPT ![d] = [st |-> "done", data |-> m, errors |-> el]]
            /\ heap' = Unpickle(heap, d, m)
            /\ pdf_results' = [pdf_results EXCEPT ![d] = [data |-> <<d>>, errors |-> el]]
       \/ /\ task' = [task EXCEPT ![d].st = "failed"]
          /\ UNCHANGED <<heap, pdf_results>>
    /\ order' = Append(order, d)
    /\ UNCHANGED <<mpc, all_errors, mi, files>>
    /\ UNCHANGED <<started, merged, live>>
    /\ UNCHANGED wvars
    /\ UNCHANGED xvars
    /\ UNCHANGED dvars

(***************************************************************************)
(* pool.map, line 261, ends when every task has ended: it returns the list *)
(* of results, or re-raises the exception of a task, which nothing in      *)
(* process_all_pdfs or __main__ catches.                                   *)
(***************************************************************************)
\* A pool whose map hands over the results as soon as the first document
\* has one (the loop of an imap over a running pool).
MapEnds_Early ==
    /\ mpc = "map"
    /\ 1 \in Docs /\ task[1].st = "done"
    /\ mpc' = "merge"
    /\ mi' = 0
    /\ UNCHANGED <<task, pdf_results, heap, all_errors, order, files>>
    /\ UNCHANGED <<started, merged, live>>
    /\ UNCHANGED wvars
    /\ UNCHANGED xvars
    /\ UNCHANGED dvars

MapEnds ==
    /\ mpc = "map"
    /\ \A d \in Docs : Ended(d)
    /\ \/ /\ \E d \in Docs : task[d].st = "failed"
          /\ mpc' = "crashed"
       \/ /\ \A d \in Docs : task[d].st = "done"
          /\ mpc' = "merge"
    /\ mi' = 0
    /\ UNCHANGED <<task, pdf_results, heap, all_errors, order, files>>
    /\ UNCHANGED <<started, merged, live>>
    /\ UNCHANGED wvars
    /\ UNCHANGED xvars
    /\ UNCHANGED dvars

(***************************************************************************)
(* process_all_pdfs, lines 262-264: one pass of for res in pdf_results.    *)
(***************************************************************************)
\* list.extend of line 264, and an extend that skips the entries the list
\* already holds.
RECURSIVE extend_Dedup(_, _)
extend_Dedup(l, more) ==
    IF more = <<>>
    THEN l
    ELSE extend_Dedup(IF \E i \in DOMAIN l : l[i] = Head(more)
                      THEN l
                      ELSE Append(l, Head(more)),
                      Tail(more))

extend(l, more) == l \o more

MergeStep ==
    /\ mpc = "merge"
    /\ mi < Len(pdf_results)
    /\ LET res == pdf_results[ResultAt(mi + 1)]
       IN  /\ heap' = merge_results(heap, AggRoot, res.data)
           /\ all_errors' = extend(all_errors, res.errors)
    /\ mi' = mi + 1
    /\ UNCHANGED <<mpc, task, pdf_results, order, files>>
    /\ merged' = Append(merged, ResultAt(mi + 1))
    /\ UNCHANGED <<started, live>>
    /\ UNCHANGED wvars
    /\ UNCHANGED xvars
    /\ UNCHANGED dvars

(***************************************************************************)
(* process_all_pdfs, line 265, and __main__, lines 273-277.                *)
(***************************************************************************)
ReturnAll ==
    /\ mpc = "merge"
    /\ mi = Len(pdf_results)
    /\ mpc' = "returned"
    /\ UNCHANGED <<task, pdf_results, heap, all_errors, mi, order, files>>
    /\ UNCHANGED <<started, merged, live>>
    /\ UNCHANGED wvars
    /\ UNCHANGED xvars
    /\ UNCHANGED dvars

SaveResults ==
    /\ mpc = "returned"
    /\ files' = files \cup {"2022_results.json"}
    /\ mpc' = "saved_results"
    /\ UNCHANGED <<task, pdf_results, heap, all_errors, mi, order>>
    /\ UNCHANGED <<started, merged, live>>
    /\ UNCHANGED wvars
    /\ UNCHANGED xvars
    /\ UNCHANGED dvars

SaveErrors ==
    /\ mpc = "saved_results"
    /\ files' = files \cup {"2022_error_log.json"}
    /\ mpc' = "exit"
    /\ UNCHANGED <<task, pdf_results, heap, all_errors, mi, order>>
    /\ UNCHANGED <<started, merged, live>>
    /\ UNCHANGED wvars
    /\ UNCHANGED xvars
    /\ UNCHANGED dvars

(***************************************************************************)
(* Specification of one run of __main__.                                   *)
(***************************************************************************)
WorkerIdle ==
    /\ pc = "idle"
    /\ sentences = <<>>
    /\ idx = 0
    /\ attempt = 0
    /\ driver = 0
    /\ sdriver = 0
    /\ sess = <<>>
    /\ data = EmptyDict
    /\ error_log = <<>>
    /\ blocks = 0
    /\ log = <<>>
    /\ hist = <<>>
    /\ entry = [data |-> EmptyDict, errlen |-> 0, driver |-> 0]
    /\ ntables = 0
    /\ cur_table = Unbound
    /\ teardown = "none"
    /\ written = <<>>

InitPool ==
    /\ InsertIdle
    /\ WorkerIdle
    /\ ExtractIdle
    /\ mpc = "glob"
    /\ task = <<>>
    /\ pdf_results = <<>>
    /\ heap = <<>>
    /\ all_errors = <<>>
    /\ mi = 0
    /\ order = <<>>
    /\ files = {}
    /\ started = <<>>
    /\ merged = <<>>
    /\ live = {}

NextPool ==
    \/ Glob
    \/ \E d \in Docs : Start(d)
    \/ \E d \in Docs : Finish(d)
    \/ MapEnds
    \/ MergeStep
    \/ ReturnAll
    \/ SaveResults
    \/ SaveErrors

SpecPool == InitPool /\ [][NextPool]_vars

(***************************************************************************)
(* The pool at work, with the sessions of its workers (lines 47-55, 38-44, *)
(* 260-261): the documents found are queued, each pool process runs one    *)
(* process_pdf call at a time, and a running call opens and quits          *)
(* sessions, one at a time.  The results of the calls are left out.        *)
(***************************************************************************)
MaxQueued == 7

\* init_driver in the worker of document d (lines 232, 112, 118), when the
\* session it held is closed.
SessionOpens(d) ==
    /\ mpc = "map"
    /\ task[d].st = "running"
    /\ d \notin live
    /\ live' = live \cup {d}
    /\ UNCHANGED <<mpc, task, pdf_results, heap, all_errors, mi, order, files,
                   started, merged>>
    /\ UNCHANGED wvars
    /\ UNCHANGED xvars
    /\ UNCHANGED dvars

\* safe_quit in the worker of document d (lines 111, 117, 245).
SessionQuits(d) ==
    /\ mpc = "map"
    /\ task[d].st = "running"
    /\ d \in live
    /\ live' = live \ {d}
    /\ UNCHANGED <<mpc, task, pdf_results, heap, all_errors, mi, order, files,
                   started, merged>>
    /\ UNCHANGED wvars
    /\ UNCHANGED xvars
    /\ UNCHANGED dvars

\* A process_pdf call ends, returning or raising, with its session closed.
\* The order of completion is not recorded here.
TaskEnds(d) ==
    /\ mpc = "map"
    /\ task[d].st = "running"
    /\ d \notin live
    /\ \E st \in {"done", "failed"} : task' = [task EXCEPT ![d].st = st]
    /\ UNCHANGED <<mpc, pdf_results, heap, all_errors, mi, order, files,
                   started, merged, live>>
    /\ UNCHANGED wvars
    /\ UNCHANGED xvars
    /\ UNCHANGED dvars

\* The state after lines 255-260, with up to MaxQueued documents.
InitSched ==
    /\ InsertIdle
    /\ WorkerIdle
    /\ ExtractIdle
    /\ mpc = "map"
    /\ \E n \in 0..MaxQueued :
          /\ task = [d \in 1..n |-> [st |-> "pending", data |-> EmptyDict,
                                     errors |-> <<>>]]
          /\ pdf_results = [d \in 1..n |-> [data |-> <<>>, errors |-> <<>>]]
    /\ heap = [o \in {AggRoot} |-> EmptyDict]
    /\ all_errors = <<>>
    /\ mi = 0
    /\ order = <<>>
    /\ files = {}
    /\ started = <<>>
    /\ merged = <<>>
    /\ live = {}

NextSched ==
    \/ \E d \in Docs : Start(d)
    \/ \E d \in Docs : SessionOpens(d)
    \/ \E d \in Docs : SessionQuits(d)
    \/ \E d \in Docs : TaskEnds(d)

SpecSched == InitSched /\ [][NextSched]_vars

(***************************************************************************)
(* merge_results on its own (lines 211-221): the function is called on two *)
(* dicts of any shape, a value being a text or a dict, and called again on *)
(* the same two dicts.  dict1 is the object DictOne, dict2 the object       *)
(* DictTwo; mi counts the calls made.                                      *)
(***************************************************************************)
MergeKeys == {"a", "b"}

MaxCalls == 2

DictOne == <<1>>

DictTwo == <<2>>

\* A value as such, without object identity: a text, or a dict of values.
TextValue(t) == [leaf |-> TRUE, txt |-> t, sub |-> <<>>]

DictValue(m) == [leaf |-> FALSE, txt |-> "", sub |-> m]

\* The dicts that hold texts only, and the dicts that hold texts and such
\* dicts.
FlatDicts ==
    UNION {[S -> {TextValue(t) : t \in PassageTexts}] : S \in SUBSET MergeKeys}

NestedDicts ==
    UNION {[S -> {TextValue(t) : t \in PassageTexts}
                 \cup {DictValue(m) : m \in FlatDicts}] : S \in SUBSET MergeKeys}

\* The dict objects of a nested dict m whose outer dict is the object <<r>>.
Objects(r, m) ==
    LET ids == {<<r>>} \cup {<<r, k>> : k \in {j \in DOMAIN m : ~m[j].leaf}}
    IN  [o \in ids |->
            IF Len(o) = 1
            THEN [k \in DOMAIN m |-> IF m[k].leaf THEN LeafItem(m[k].txt)
                                     ELSE RefItem(<<r, k>>)]
            ELSE [k \in DOMAIN m[o[2]].sub |-> LeafItem(m[o[2]].sub[k].txt)]]

\* The value of an item on the heap.
RECURSIVE ValueOf(_, _)
ValueOf(h, item) ==
    IF item.leaf
    THEN TextValue(item.txt)
    ELSE DictValue([k \in DOMAIN h[item.ref] |-> ValueOf(h, h[item.ref][k])])

InitMerge ==
    /\ InsertIdle
    /\ WorkerIdle
    /\ ExtractIdle
    /\ mpc = "merge_results"
    /\ \E m1, m2 \in NestedDicts :
          LET h1 == Objects(1, m1)
              h2 == Objects(2, m2)
          IN  heap = [o \in (DOMAIN h1) \cup (DOMAIN h2) |->
                          IF o \in DOMAIN h1 THEN h1[o] ELSE h2[o]]
    /\ mi = 0
    /\ task = <<>>
    /\ pdf_results = <<>>
    /\ all_errors = <<>>
    /\ order = <<>>
    /\ files = {}
    /\ started = <<>>
    /\ merged = <<>>
    /\ live = {}

MergeCall ==
    /\ mpc = "merge_results"
    /\ mi < MaxCalls
    /\ heap' = merge_results(heap, DictOne, DictTwo)
    /\ mi' = mi + 1
    /\ UNCHANGED <<mpc, task, pdf_results, all_errors, order, files>>
    /\ UNCHANGED <<started, merged, live>>
    /\ UNCHANGED wvars
    /\ UNCHANGED xvars
    /\ UNCHANGED dvars

NextMerge == MergeCall

SpecMerge == InitMerge /\ [][NextMerge]_vars

(***************************************************************************)
(* extract_sentences_from_pdf (lines 171-208).                             *)
(*                                                                         *)
(* The text of a page is a sequence of characters.  The pages of the       *)
(* document are put together from a few pieces, at most MaxTokens of them  *)
(* in the whole document.                                                  *)
(***************************************************************************)
Hangul == {"U+3131", "U+AC00"}

Lower == {"a", "b", "c", "d", "e", "f", "g", "h", "i", "j", "k", "l", "m",
          "n", "o", "p", "q", "r", "s", "t", "u", "v", "w", "x", "y", "z"}

Upper == {"A", "B", "C", "D", "E", "F", "G", "H", "I", "J", "K", "L", "M",
          "N", "O", "P", "Q", "R", "S", "T", "U", "V", "W", "X", "Y", "Z"}

\* "a b c d e" and "a b c d": four spaces and three; "e d c b a".
FiveWords == <<"a", " ", "b", " ", "c", " ", "d", " ", "e">>
FourWords == <<"a", " ", "b", " ", "c", " ", "d">>
WordsBack == <<"e", " ", "d", " ", "c", " ", "b", " ", "a">>

\* The pieces: the three word groups, a full stop, a newline, a colon, a
\* space, a tab, a digit, a Hangul syllable, a right single quotation mark.
Tokens ==
    {FiveWords, FourWords, WordsBack, <<".">>, <<"\n">>, <<":">>, <<" ">>,
     <<"\t">>, <<"1">>, <<"U+AC00">>, <<"U+2019">>}

RECURSIVE Concat(_)
Concat(ts) == IF ts = <<>> THEN <<>> ELSE Head(ts) \o Concat(Tail(ts))

RECURSIVE TokensIn(_)
TokensIn(pages) ==
    IF pages = <<>> THEN 0 ELSE Len(Head(pages)) + TokensIn(Tail(pages))

\* Lines 187-192: the four str.replace calls, character by character.
StraightQuote(c) ==
    IF c \in {"U+2018", "U+2019"} THEN "'"
    ELSE IF c \in {"U+201C", "U+201D"} THEN "\""
    ELSE c

ReplaceQuotes(t) == [i \in DOMAIN t |-> StraightQuote(t[i])]

\* Line 193: re.sub(r"[ㄱ-ㅎ가-힣]+", "", text).
RECURSIVE RemoveHangul(_)
RemoveHangul(t) ==
    IF t = <<>> THEN <<>>
    ELSE IF Head(t) \in Hangul THEN RemoveHangul(Tail(t))
    ELSE <<Head(t)>> \o RemoveHangul(Tail(t))

\* Line 194: re.split(r"[\.!?\n]+\s*", text).  A separator is a run of
\* terminators and the white space after it; the pieces between separators,
\* before the first and after the last are returned, empty ones included.
Terminator(c) == c \in {".", "!", "?", "\n"}

RECURSIVE DropWhileTerminator(_)
DropWhileTerminator(t) ==
    IF t # <<>> /\ Terminator(Head(t)) THEN DropWhileTerminator(Tail(t)) ELSE t

RECURSIVE ReSplitFrom(_, _, _)
ReSplitFrom(t, piece, pieces) ==
    IF t = <<>> THEN Append(pieces, piece)
    ELSE IF Terminator(Head(t))
         THEN ReSplitFrom(LStrip(DropWhileTerminator(t)), <<>>,
                          Append(pieces, piece))
         ELSE ReSplitFrom(Tail(t), Append(piece, Head(t)), pieces)

ReSplit(t) == ReSplitFrom(t, <<>>, <<>>)

\* Lines 198-199: s.split(":", 1)[1], the text after the first colon; and
\* a cut at the last colon.
HasColon(s) == \E i \in DOMAIN s : s[i] = ":"

RECURSIVE AfterLastColon(_)
AfterLastColon(s) ==
    IF s = <<>> \/ Last(s) = ":" THEN <<>>
    ELSE Append(AfterLastColon(SubSeq(s, 1, Len(s) - 1)), Last(s))

RECURSIVE AfterFirstColon(_)
AfterFirstColon(s) ==
    IF Head(s) = ":" THEN Tail(s) ELSE AfterFirstColon(Tail(s))

\* A cut at the first colon that leaves the text after it as it is.
Fragment_NoStrip(s) ==
    LET stripped == Strip(s)
    IN  IF HasColon(stripped) THEN AfterFirstColon(stripped) ELSE stripped

\* Lines 197-199.
Fragment(s) ==
    LET stripped == Strip(s)
    IN  IF HasColon(stripped) THEN Strip(AfterFirstColon(stripped)) ELSE stripped

\* Line 200: s.count(" ") and the test on it.
RECURSIVE CountSpaces(_)
CountSpaces(s) ==
    IF s = <<>> THEN 0
    ELSE (IF Head(s) = " " THEN 1 ELSE 0) + CountSpaces(Tail(s))

TooShort_Two(s) == s = <<>> \/ CountSpaces(s) <= MinSpaces - 1

TooShort(s) == s = <<>> \/ CountSpaces(s) <= MinSpaces

\* Line 180: the character class of allowed_pattern; \s is any white space.
AllowedChar_Any(c) == TRUE

AllowedChar(c) ==
    c \in Lower \cup Upper \cup {" ", "\t", "\n"} \cup {".", ",", "'", "\"", ":"}

\* Line 202: allowed_pattern.fullmatch(s).
FullMatch(s) == s # <<>> /\ \A i \in DOMAIN s : AllowedChar(s[i])

(***************************************************************************)
(* Lines 181-182: the file is opened and parsed; either may raise.         *)
(***************************************************************************)
OpenPdf ==
    /\ xpc = "open"
    /\ xpc' \in {"pages", "raised"}
    /\ UNCHANGED <<pageno, text, page_sentences, processed_sentences, ci,
                   ext_sentences, pdf_pages>>
    /\ UNCHANGED wvars
    /\ UNCHANGED pvars
    /\ UNCHANGED dvars

(***************************************************************************)
(* Lines 183-195: the next page.  A page without text is passed over; the  *)
(* text of any other is normalised and split.                              *)
(***************************************************************************)
ReadPage ==
    /\ xpc = "pages"
    /\ pageno < MaxPages
    /\ \E n \in 0..(MaxTokens - TokensIn(pdf_pages)) :
         \E ts \in [1..n -> Tokens] :
            /\ pdf_pages' = Append(pdf_pages, ts)
            /\ IF Concat(ts) = <<>>
               THEN /\ text' = <<>>
                    /\ UNCHANGED <<xpc, page_sentences, processed_sentences, ci>>
               ELSE /\ text' = RemoveHangul(ReplaceQuotes(Concat(ts)))
                    /\ page_sentences' = ReSplit(text')
                    /\ processed_sentences' = <<>>
                    /\ ci' = 0
                    /\ xpc' = "cands"
    /\ pageno' = pageno + 1
    /\ UNCHANGED ext_sentences
    /\ UNCHANGED wvars
    /\ UNCHANGED pvars
    /\ UNCHANGED dvars

(***************************************************************************)
(* Lines 196-203: one pass of for s in page_sentences.                     *)
(***************************************************************************)
Candidate ==
    /\ xpc = "cands"
    /\ ci < Len(page_sentences)
    /\ ci' = ci + 1
    /\ LET s == Fragment(page_sentences[ci'])
       IN  processed_sentences' =
               IF ~TooShort(s) /\ FullMatch(s)
               THEN Append(processed_sentences, s)
               ELSE processed_sentences
    /\ UNCHANGED <<xpc, pageno, text, page_sentences, ext_sentences, pdf_pages>>
    /\ UNCHANGED wvars
    /\ UNCHANGED pvars
    /\ UNCHANGED dvars

\* A page loop that puts the sentences of a page before those of the pages
\* read earlier.
EndPage_Prepend ==
    /\ xpc = "cands"
    /\ ci = Len(page_sentences)
    /\ ext_sentences' = processed_sentences \o ext_sentences
    /\ xpc' = "pages"
    /\ UNCHANGED <<pageno, text, page_sentences, processed_sentences, ci,
                   pdf_pages>>
    /\ UNCHANGED wvars
    /\ UNCHANGED pvars
    /\ UNCHANGED dvars

(***************************************************************************)
(* Line 204: sentences.extend(processed_sentences), and on to the next     *)
(* page.                                                                   *)
(***************************************************************************)
EndPage ==
    /\ xpc = "cands"
    /\ ci = Len(page_sentences)
    /\ ext_sentences' = ext_sentences \o processed_sentences
    /\ xpc' = "pages"
    /\ UNCHANGED <<pageno, text, page_sentences, processed_sentences, ci,
                   pdf_pages>>
    /\ UNCHANGED wvars
    /\ UNCHANGED pvars
    /\ UNCHANGED dvars

(***************************************************************************)
(* Line 208: the document has no further page.                             *)
(***************************************************************************)
ReturnSentences ==
    /\ xpc = "pages"
    /\ xpc' = "returned"
    /\ UNCHANGED <<pageno, text, page_sentences, processed_sentences, ci,
                   ext_sentences, pdf_pages>>
    /\ UNCHANGED wvars
    /\ UNCHANGED pvars
    /\ UNCHANGED dvars

(***************************************************************************)
(* Specification of one extract_sentences_from_pdf call.                   *)
(***************************************************************************)
InitExtract ==
    /\ InsertIdle
    /\ WorkerIdle
    /\ PoolIdle
    /\ xpc = "open"
    /\ pageno = 0
    /\ text = <<>>
    /\ page_sentences = <<>>
    /\ processed_sentences = <<>>
    /\ ci = 0
    /\ ext_sentences = <<>>
    /\ pdf_pages = <<>>

NextExtract ==
    \/ OpenPdf
    \/ ReadPage
    \/ Candidate
    \/ EndPage
    \/ ReturnSentences

SpecExtract == InitExtract /\ [][NextExtract]_vars

(***************************************************************************)
(* insert_json_to_db (insert_json_to_db.py, lines 29-77).                  *)
(*                                                                         *)
(* json_data is a dict of parent id -> value; the value may hold a dict    *)
(* "content" of key -> passage.  The keys are strings as json.load gives   *)
(* them, here sequences of characters; a dict is the list of its keys in   *)
(* the order of the dict, every passage being the same text.               *)
(***************************************************************************)
MaxItems == 2

MaxKeys == 3

\* The parent id that line 38 passes over.
SkippedId == "2138"

ParentIds == {"7", "8", SkippedId}

\* "0", "1", "2", "3", "01" and "a".
ContentKeys == {<<"0">>, <<"1">>, <<"2">>, <<"3">>, <<"0", "1">>, <<"a">>}

\* The dicts over these keys with up to MaxKeys items.
Contents ==
    {l \in UNION {[1..n -> ContentKeys] : n \in 0..MaxKeys} :
        \A i, j \in DOMAIN l : i # j => l[i] # l[j]}

DigitChars == <<"0", "1", "2", "3", "4", "5", "6", "7", "8", "9">>

IsDigit(c) == \E i \in DOMAIN DigitChars : DigitChars[i] = c

DigitValue(c) == (CHOOSE i \in DOMAIN DigitChars : DigitChars[i] = c) - 1

\* The strings of the model that int() accepts; it raises ValueError on the
\* others.
IsNumeral(k) == k # <<>> /\ \A i \in DOMAIN k : IsDigit(k[i])

\* int(x) for a string of digits.
RECURSIVE int(_)
int(k) ==
    IF k = <<>> THEN 0
    ELSE 10 * int(SubSeq(k, 1, Len(k) - 1)) + DigitValue(Last(k))

\* str(n) for n >= 0.
RECURSIVE str(_)
str(n) ==
    IF n < 10 THEN <<DigitChars[n + 1]>>
    ELSE Append(str(n \div 10), DigitChars[(n % 10) + 1])

\* sorted(content.keys(), key=lambda x: int(x)): a stable sort, keys of
\* equal value staying in the order of the dict.
RECURSIVE InsertByInt(_, _)
InsertByInt(l, k) ==
    IF l = <<>> \/ int(Last(l)) <= int(k)
    THEN Append(l, k)
    ELSE Append(InsertByInt(SubSeq(l, 1, Len(l) - 1), k), Last(l))

RECURSIVE sorted(_)
sorted(keys) ==
    IF keys = <<>> THEN <<>>
    ELSE InsertByInt(sorted(SubSeq(keys, 1, Len(keys) - 1)), Last(keys))

\* Lines 55-73: one INSERT per item of content, in the order of the dict.
Inserts(id, content) ==
    [i \in DOMAIN content |->
        [parent_id |-> id, passage |-> "x", article_key |-> content[i]]]

(***************************************************************************)
(* Lines 33-35: the connection and the session; either may raise.          *)
(***************************************************************************)
Connect ==
    /\ dbpc = "connect"
    /\ dbpc' \in {"loop", "raised"}
    /\ UNCHANGED <<p_item, seen_ids, executed, commits>>
    /\ UNCHANGED wvars
    /\ UNCHANGED xvars
    /\ UNCHANGED pvars

(***************************************************************************)
(* Lines 36-74: one pass of the loop over json_data.items().               *)
(***************************************************************************)
LoopPass ==
    /\ dbpc = "loop"
    /\ Cardinality(seen_ids) < MaxItems
    /\ \E p_id \in ParentIds \ seen_ids : \E has \in BOOLEAN :
       \E content \in (IF has THEN Contents ELSE {<<>>}) :
          /\ p_item' = [p_id |-> p_id, has_content |-> has, content |-> content]
          /\ seen_ids' = seen_ids \cup {p_id}
          /\ IF p_id = SkippedId
             THEN /\ executed' = <<>>
                  /\ UNCHANGED <<dbpc, commits>>
             ELSE IF content = <<>>
             THEN /\ executed' = <<>>
                  /\ commits' = commits + 1
                  /\ UNCHANGED dbpc
             ELSE IF Len(content) <= 1
             THEN /\ executed' = <<>>
                  /\ UNCHANGED <<dbpc, commits>>
             ELSE IF \E i \in DOMAIN content : ~IsNumeral(content[i])
             THEN /\ executed' = <<>>
                  /\ dbpc' = "raised"
                  /\ UNCHANGED commits
             ELSE LET sorted_keys == sorted(content)
                  IN  IF Last(sorted_keys) # str(Len(sorted_keys))
                      THEN /\ executed' = <<>>
                           /\ UNCHANGED <<dbpc, commits>>
                      ELSE /\ executed' = Inserts(p_id, content)
                           /\ commits' = commits + 1
                           /\ UNCHANGED dbpc
    /\ UNCHANGED wvars
    /\ UNCHANGED xvars
    /\ UNCHANGED pvars

(***************************************************************************)
(* Lines 75-77: json_data has no further item.                             *)
(***************************************************************************)
Disconnect ==
    /\ dbpc = "loop"
    /\ dbpc' = "done"
    /\ UNCHANGED <<p_item, seen_ids, executed, commits>>
    /\ UNCHANGED wvars
    /\ UNCHANGED xvars
    /\ UNCHANGED pvars

InitInsert ==
    /\ WorkerIdle
    /\ ExtractIdle
    /\ PoolIdle
    /\ dbpc = "connect"
    /\ p_item = <<>>
    /\ seen_ids = {}
    /\ executed = <<>>
    /\ commits = 0

NextInsert ==
    \/ Connect
    \/ LoopPass
    \/ Disconnect

SpecInsert == InitInsert /\ [][NextInsert]_vars

(***************************************************************************)
(* Claims about process_sentence and process_pdf (specification Spec).     *)
(***************************************************************************)
AllMismatch(l) == \A i \in Queries(l) : l[i].res = "Mismatch"

AllOpensOk(l) == \A i \in Opens(l) : l[i].res = "ok"

InRetryLoop == pc \in {"query", "else_quit", "else_open", "exc_quit", "exc_open"}

\* C1: Retry ceiling. For the sentence in hand, when every query attempt so
\* far returned Mismatch and every session open succeeded, at most
\* max_attempts = 3 query attempts have been made, and once the retry loop
\* has been left exactly 3 have been made (no query follows).
C1_RetryCeiling ==
    (idx > 0 /\ AllMismatch(log) /\ AllOpensOk(log)) =>
        /\ Cardinality(Queries(log)) <= max_attempts
        /\ (~InRetryLoop => Cardinality(Queries(log)) = max_attempts)

C1_Witness ==
    /\ pc = "for"
    /\ Len(hist) = idx
    /\ idx > 0
    /\ AllMismatch(log)
    /\ AllOpensOk(log)
    /\ Cardinality(Queries(log)) = max_attempts

\* C2: every sentence that ended Exhausted (the attempts ran out without a
\* match) has exactly one ErrorEntry appended to the document's error list.
C2_ExhaustedRecordsOneError ==
    \A i \in DOMAIN hist : hist[i].outcome = "Exhausted" => ErrsOf(i) = 1

\* Sentence i has run out of attempts: process_sentence left it Exhausted,
\* or it is the sentence in hand and its attempt counter has reached the
\* ceiling.
UsedUp(i) ==
    \/ i \in DOMAIN hist /\ hist[i].outcome = "Exhausted"
    \/ i = idx /\ i \notin DOMAIN hist /\ attempt >= max_attempts
                /\ ~LastQueryMatched(log)

\* C3: Exhausted for one sentence never aborts the document loop: once a
\* sentence has run out of attempts process_pdf does not raise, and it
\* returns only after every sentence of the document, hence every sentence
\* after the exhausted one, has been handed to process_sentence.
C3_ExhaustedDoesNotAbort ==
    \A i \in 1..idx : UsedUp(i) =>
        /\ pc # "raised"
        /\ (pc = "returned" => idx = Len(sentences) /\ Len(hist) = Len(sentences))

C3_Witness ==
    /\ pc = "returned"
    /\ Len(hist) = Len(sentences)
    /\ \E i \in DOMAIN hist : hist[i].outcome = "Exhausted" /\ i < Len(sentences)

\* C4: an exception that leaves process_sentence (init_driver failing in the
\* except clause) becomes exactly one ErrorEntry naming the document, the
\* sentence and the error; process_pdf does not raise, and returns only
\* after all the sentences have been handed to process_sentence.
C4_EscapedIsOneErrorEntry ==
    \A i \in DOMAIN hist : hist[i].outcome = "Escaped" =>
        /\ ErrsOf(i) = 1
        /\ hist[i].errlen <= Len(error_log)
        /\ error_log[hist[i].errlen] =
              [pdf_file |-> ThisPdf, search_term |-> sentences[i],
               error |-> "SessionCreationError"]
        /\ pc # "raised"
        /\ (pc = "returned" => idx = Len(sentences) /\ Len(hist) = Len(sentences))

C4_Witness ==
    /\ pc = "returned"
    /\ Len(hist) = Len(sentences)
    /\ \E i \in DOMAIN hist : hist[i].outcome = "Escaped" /\ i < Len(sentences)

(***************************************************************************)
(* Claims about process_all_pdfs and merge_results (specification          *)
(* SpecPool).                                                              *)
(***************************************************************************)
Agg == MapOf(heap, AggRoot)

RunEnded == mpc \in {"exit", "crashed"}

Returned == mpc \in {"returned", "saved_results", "exit"}

\* The documents whose process_pdf returned a map with a leaf at path.
Holders(path) == {d \in Docs : task[d].st = "done" /\ path \in Leaves(task[d].data)}

AllLeaves == UNION {Leaves(task[d].data) : d \in {e \in Docs : task[e].st = "done"}}

\* Position of document d in the order of completion.
DoneAt(d) == CHOOSE i \in DOMAIN order : order[i] = d

\* C5: Isolation. When process_pdf of some document raised, the run still
\* returns an aggregate: it holds an ErrorEntry for each failed document and
\* every leaf of the partial of every other document.
C5_Isolation ==
    (RunEnded /\ \E d \in Docs : task[d].st = "failed") =>
        /\ mpc = "exit"
        /\ \A d \in Docs : task[d].st = "failed" =>
              \E i \in DOMAIN all_errors : all_errors[i].pdf_file = d
        /\ \A d \in Docs : task[d].st = "done" =>
              Leaves(task[d].data) \subseteq Leaves(Agg)

\* C6: every run that ends has written both output files.
C6_BothFilesWritten ==
    RunEnded => files = {"2022_results.json", "2022_error_log.json"}

\* C7: Merge last-write-wins. After merge_results(results, p), every leaf
\* path of p is a leaf of results with p's text, whatever results held there.
C7_MergeLastWriteWins ==
    [][mi' = mi + 1 =>
        LET p == MapOf(heap, pdf_results[mi'].data)
        IN  \A path \in Leaves(p) :
                path \in Leaves(Agg') /\ At(Agg', path) = At(p, path)]_vars

C7_Witness ==
    /\ mpc = "merge"
    /\ mi = 2
    /\ \E path \in Leaves(task[1].data) \cap Leaves(task[2].data) :
          /\ At(task[1].data, path) # At(task[2].data, path)
          /\ At(Agg, path) = At(task[2].data, path)

\* C8: Merge structural union. After merge_results(results, p) the leaf
\* paths of results are those it had before together with those of p, and
\* every old leaf whose path is not in p keeps its text.
C8_MergeStructuralUnion ==
    [][mi' = mi + 1 =>
        LET p == MapOf(heap, pdf_results[mi'].data)
        IN  /\ Leaves(Agg') = Leaves(Agg) \cup Leaves(p)
            /\ \A path \in Leaves(Agg) \ Leaves(p) :
                  At(Agg', path) = At(Agg, path)]_vars

C8_Witness ==
    /\ mpc = "merge"
    /\ mi = 2
    /\ \E p1 \in Leaves(task[1].data) : \E p2 \in Leaves(task[2].data) :
          /\ p1[1] = p2[1]
          /\ p1[2] # p2[2]
          /\ p1 \notin Leaves(task[2].data)
          /\ p2 \notin Leaves(task[1].data)
          /\ {p1, p2} \subseteq Leaves(Agg)
          /\ At(Agg, p1) = At(task[1].data, p1)

\* The error lists of documents 1..n, one after the other.
RECURSIVE ErrorsUpTo(_)
ErrorsUpTo(n) == IF n = 0 THEN <<>> ELSE ErrorsUpTo(n - 1) \o task[n].errors

MaxOf(S) == CHOOSE d \in S : \A e \in S : e <= d

\* C9: Deterministic merging. The aggregate that process_all_pdfs returns
\* is a function of the document list and of the per-document results
\* alone, the same whatever the order in which the workers completed: its
\* leaves are the leaves of the results, each with the text of the last
\* document of the list that has it, and the error log is the error lists
\* in list order.
C9_DeterministicMerge ==
    Returned =>
        /\ Leaves(Agg) = AllLeaves
        /\ \A path \in AllLeaves :
              At(Agg, path) = At(task[MaxOf(Holders(path))].data, path)
        /\ all_errors = ErrorsUpTo(Len(task))

C9_Witness ==
    /\ Returned
    /\ Len(order) = 2
    /\ order[1] > order[2]
    /\ Len(all_errors) = 2
    /\ all_errors[1].pdf_file = 1
    /\ Leaves(task[1].data) # Leaves(task[2].data)
    /\ Leaves(Agg) # {}

\* C10 as stated: at a key triple that several documents wrote, the
\* aggregate holds the text of the document whose worker completed last.
C10_CompletionOrderWins ==
    Returned =>
        \A path \in AllLeaves :
            \A d \in Holders(path) :
                (\A e \in Holders(path) : DoneAt(e) <= DoneAt(d)) =>
                    At(Agg, path) = At(task[d].data, path)

\* C10 as amended: results are merged in the order of the document list,
\* whatever the completion order: at a key triple that two documents wrote,
\* the aggregate holds the text of the one later in the list, unless a
\* document still later wrote it too.
C10_ListOrderWins ==
    Returned =>
        \A d1, d2 \in Docs :
            \A path \in Leaves(task[d1].data) \cap Leaves(task[d2].data) :
                (d1 < d2 /\ \A d3 \in Holders(path) : d3 <= d2) =>
                    At(Agg, path) = At(task[d2].data, path)

C10_Witness ==
    /\ Returned
    /\ \E d1, d2 \in Docs :
          /\ d1 < d2
          /\ DoneAt(d2) < DoneAt(d1)
          /\ \E path \in Leaves(task[d1].data) \cap Leaves(task[d2].data) :
                /\ At(task[d1].data, path) # At(task[d2].data, path)
                /\ At(Agg, path) = At(task[d2].data, path)

(***************************************************************************)
(* Claims on the result page of a matched query (lines 103-105, 121-168).  *)
(***************************************************************************)
\* The step by which process_sentence returns from a matched query whose
\* result page held no div.table-responsive at all.
ZeroMatchReturn ==
    pc = "tables" /\ LastQueryMatched(log) /\ pc' = "for"

\* C11: Zero-match is not an error. When the query of a sentence matched and
\* its result page has zero result blocks, process_sentence returns with the
\* document's map exactly as it was when the sentence was taken up, with no
\* entry added to the error log, and with the session the matched query ran
\* on, still live and untouched, as the driver of the next sentence.
C11_ZeroMatchNotAnError ==
    [][ZeroMatchReturn =>
          /\ data' = entry.data
          /\ error_log' = error_log
          /\ Len(error_log') = entry.errlen
          /\ sess' = sess
          /\ driver' = Last(log).sid
          /\ Live(sess', driver')]_vars

C11_Witness ==
    /\ pc = "for"
    /\ idx = 2
    /\ Len(hist) = idx
    /\ hist[idx].outcome = "Succeeded"
    /\ ntables = 0
    /\ data # EmptyDict
    /\ data = entry.data
    /\ Len(error_log) = entry.errlen
    /\ Live(sess, driver)

\* A matched query has been made for the sentence in hand and
\* process_sentence has not returned yet.
Matched == pc \in {"tables", "table"} /\ LastQueryMatched(log)

HasLeaf(d, k, v) ==
    /\ k[1] \in DOMAIN d
    /\ k[2] \in DOMAIN d[k[1]]
    /\ k[3] \in DOMAIN d[k[1]][k[2]]
    /\ d[k[1]][k[2]][k[3]] = v

\* C12: Success transition. The query whose echoed text equals the sentence
\* is the last event of the sentence: it leaves the attempt counter alone
\* and leads to the table scan, no query, close or open follows it, the
\* session it ran on stays live and is the one handed back to process_pdf,
\* the sentence ends as Succeeded, and every table of the page that carries
\* a record has its passage text in the caller's map once it is visited.
C12_SuccessTransition ==
    /\ [](pc # "returned" =>
            \A i \in Queries(log) : log[i].res = "Match" => i = Len(log))
    /\ [][/\ (pc = "query" /\ LastQueryMatched(log')) =>
                /\ pc' = "tables"
                /\ attempt' = attempt
                /\ sess' = sess
                /\ sdriver' = sdriver
          /\ Matched =>
                /\ log' = log
                /\ sess' = sess
                /\ sdriver' = sdriver
                /\ Live(sess', sdriver')
                /\ pc' \in {"table", "for"}
                /\ pc' = "for" =>
                      /\ driver' = sdriver
                      /\ Last(hist').outcome = "Succeeded"
                      /\ error_log' = error_log
                /\ (pc = "table" /\ Emits(cur_table)) =>
                      HasLeaf(data', KeysOf(cur_table), cur_table.eng)
                /\ (pc = "table" /\ ~Emits(cur_table)) => data' = data]_vars

C12_Witness ==
    /\ pc = "for"
    /\ idx = 2
    /\ Len(hist) = idx
    /\ hist[idx].outcome = "Succeeded"
    /\ Len(log) = 1
    /\ ntables = 2
    /\ entry.data # EmptyDict
    /\ data # entry.data
    /\ driver = entry.driver
    /\ Live(sess, driver)

(***************************************************************************)
(* Claims on the sessions (lines 38-55, 106-118, 232, 245).                *)
(***************************************************************************)
\* Event i of the log is a query made after a close, the cooldown and a
\* successful open, in this order.
AfterReplacement(l, i) ==
    /\ i >= 4
    /\ l[i - 3].op = "quit"
    /\ l[i - 2].op = "sleep"
    /\ l[i - 1].op = "open" /\ l[i - 1].res = "ok"
    /\ l[i].sid = l[i - 1].sid

\* Every query of the sentence but the first comes right after close,
\* cooldown and open.
ReplacedBeforeRetry(l) == \A i \in Queries(l) : i > 1 => AfterReplacement(l, i)

\* C13: Failure transition ordering. Every query attempt after the first
\* one of a sentence is preceded by close of the session, the cooldown and
\* the open of a new session, in this order, and the session a query
\* attempt is about to be issued on has not been closed.
C13_CloseCooldownOpenBeforeQuery ==
    /\ ReplacedBeforeRetry(log)
    /\ pc = "query" => Live(sess, sdriver)

\* process_pdf has ended: it returned its result or an exception left it.
WorkerEnded == pc \in {"returned", "raised"}

\* C14: When process_pdf ends, by returning or by raising, every session it
\* opened has been closed.
C14_NoLiveSessionAtEnd ==
    WorkerEnded => \A id \in DOMAIN sess : sess[id] = "closed"

C14_Witness ==
    /\ pc = "returned"
    /\ Len(sess) >= 3
    /\ \E i \in DOMAIN hist : hist[i].outcome = "Escaped"
    /\ \E i \in DOMAIN hist : hist[i].outcome = "Succeeded"
    /\ \A id \in DOMAIN sess : sess[id] = "closed"

(***************************************************************************)
(* Claims on the merge loop of process_all_pdfs (lines 258-265).           *)
(***************************************************************************)
\* Every process_pdf call dispatched by pool.map has returned its result.
AllReturned == \A d \in Docs : task[d].st = "done"

\* C15: Once created (lines 258-259), the aggregate map and the aggregate
\* error log change only in a step of the merge loop of process_all_pdfs,
\* and such a step is taken only when every dispatched process_pdf call has
\* returned: no step taken while a worker is pending or running, and no
\* step of a worker, changes either of them.
C15_MergeOnlyAfterAllReturned ==
    [][/\ (mpc # "glob" /\ (Agg' # Agg \/ all_errors' # all_errors)) =>
             (mpc = "merge" /\ mi' = mi + 1 /\ AllReturned)
       /\ (mpc' = "merge" \/ mi' # mi) => (AllReturned /\ task' = task)
       /\ (\E d \in Docs : task'[d] # task[d]) =>
             (Agg' = Agg /\ all_errors' = all_errors /\ mpc = "map")]_vars

C15_Witness ==
    /\ mpc = "merge"
    /\ mi = 1
    /\ Len(pdf_results) = 2
    /\ AllReturned
    /\ order = <<2, 1>>
    /\ Agg # EmptyDict
    /\ all_errors # <<>>

\* Number of error entries of the documents before document d of the list.
RECURSIVE Offset(_)
Offset(d) == IF d = 1 THEN 0 ELSE Offset(d - 1) + Len(task[d - 1].errors)

\* C16: The aggregate error log is the concatenation of the per-document
\* error lists in merge order. After mi results have been merged its length
\* is the sum of the lengths of the lists of documents 1..mi, and entry j of
\* the list of document d stands at position Offset(d) + j: every entry is
\* there, in its place, equal entries included.
C16_ErrorLogIsConcatenation ==
    (mpc \in {"merge", "returned", "saved_results", "exit"}) =>
        /\ Len(all_errors) = Offset(mi + 1)
        /\ \A d \in 1..mi : \A j \in DOMAIN task[d].errors :
              all_errors[Offset(d) + j] = task[d].errors[j]

C16_Witness ==
    /\ mpc = "returned"
    /\ mi = 2
    /\ Len(task[1].errors) = 2
    /\ task[1].errors[1] # task[1].errors[2]
    /\ Len(task[2].errors) = 2
    /\ task[2].errors[1] = task[2].errors[2]
    /\ Len(all_errors) = 4
    /\ all_errors[3] = all_errors[4]

(***************************************************************************)
(* Claims about extract_sentences_from_pdf (specification SpecExtract).    *)
(***************************************************************************)
\* Every sentence emitted so far: those of the pages done and those of the
\* page in hand.
Emitted ==
    {ext_sentences[i] : i \in DOMAIN ext_sentences}
        \cup {processed_sentences[i] : i \in DOMAIN processed_sentences}

Letters == Lower \cup Upper

Punctuation == {".", ",", "'", "\"", ":"}

WhiteSpace == {" ", "\t", "\n"}

\* C17 as stated: every character of every emitted sentence is a letter
\* A-Z or a-z, the space character, or one of . , ' " :
C17_AllowListSpaceOnly ==
    \A s \in Emitted : \A i \in DOMAIN s :
        s[i] \in Letters \cup {" "} \cup Punctuation

\* C17 as amended: every character of every emitted sentence is a letter
\* A-Z or a-z, a white-space character (the space, the tab and the others
\* that \s matches), or one of . , ' " :
C17_AllowListWhiteSpace ==
    \A s \in Emitted : \A i \in DOMAIN s :
        s[i] \in Letters \cup WhiteSpace \cup Punctuation

C17_Witness ==
    /\ xpc = "returned"
    /\ \E s \in Emitted :
          /\ \E i \in DOMAIN s : s[i] = "\t"
          /\ \E i \in DOMAIN s : s[i] = "'"
    /\ \E i \in DOMAIN pdf_pages : \E j \in DOMAIN pdf_pages[i] :
          pdf_pages[i][j] = <<"U+2019">>

\* A pass of the loop over the split candidates of a page.
CandidateStep == xpc = "cands" /\ ci' = ci + 1

\* t without its leading and trailing white space: from its first
\* character that is not white space to its last.
FirstInk(t) ==
    CHOOSE i \in 1..(Len(t) + 1) :
        /\ i = Len(t) + 1 \/ ~IsSpace(t[i])
        /\ \A k \in 1..(i - 1) : IsSpace(t[k])

LastInk(t) ==
    CHOOSE j \in 0..Len(t) :
        /\ j = 0 \/ ~IsSpace(t[j])
        /\ \A k \in (j + 1)..Len(t) : IsSpace(t[k])

Trimmed(t) == SubSeq(t, FirstInk(t), LastInk(t))

FirstColon(c) == CHOOSE i \in DOMAIN c : c[i] = ":" /\ \A j \in 1..(i - 1) : c[j] # ":"

Colons(c) == Cardinality({i \in DOMAIN c : c[i] = ":"})

Spaces(c) == Cardinality({i \in DOMAIN c : c[i] = " "})

AllowListed(c) ==
    c # <<>> /\ \A i \in DOMAIN c : c[i] \in Letters \cup WhiteSpace \cup Punctuation

\* What the text says is kept of candidate c: the trimmed candidate, or the
\* trimmed text after its first colon.
Kept(c) ==
    LET t == Trimmed(c)
    IN  IF Colons(t) = 0
        THEN t
        ELSE Trimmed(SubSeq(t, FirstColon(t) + 1, Len(t)))

\* C18: Colon truncation. For a split candidate that contains a colon, what
\* is filtered is the trimmed text after the first colon: the pass emits
\* that fragment when it has more than 3 spaces and is allow-listed, and
\* nothing otherwise; the fragment holds all the colons of the candidate
\* but the first, and nothing of the text before the first colon.
C18_ColonTruncation ==
    [][(CandidateStep /\ Colons(page_sentences[ci']) > 0) =>
          LET c == page_sentences[ci']
              f == Trimmed(SubSeq(c, FirstColon(c) + 1, Len(c)))
          IN  /\ Colons(f) = Colons(c) - 1
              /\ processed_sentences' =
                    IF Spaces(f) > MinSpaces /\ AllowListed(f)
                    THEN Append(processed_sentences, f)
                    ELSE processed_sentences]_vars

C18_Witness ==
    /\ xpc = "cands"
    /\ ci = Len(page_sentences)
    /\ ci >= 1
    /\ Colons(page_sentences[ci]) = 1
    /\ FirstColon(page_sentences[ci]) > 1
    /\ Len(processed_sentences) = 1
    /\ Len(processed_sentences[1]) < Len(page_sentences[ci]) - 1
    /\ Spaces(processed_sentences[1]) < Spaces(page_sentences[ci])

\* C19 as stated: a candidate with at most 3 spaces is dropped, and an
\* allow-listed candidate with 4 or more spaces is retained.
C19_MinLengthOnCandidate ==
    [][CandidateStep =>
          LET c == Trimmed(page_sentences[ci'])
          IN  /\ Spaces(c) <= MinSpaces =>
                    processed_sentences' = processed_sentences
              /\ (Spaces(c) > MinSpaces /\ AllowListed(c)) =>
                    Len(processed_sentences') = Len(processed_sentences) + 1]_vars

\* C19 as amended: the spaces are counted on what is kept of the candidate,
\* the trimmed candidate or the trimmed text after its first colon.  With
\* at most 3 spaces there (hence whenever the candidate has at most 3) the
\* candidate is dropped; allow-listed and with 4 or more spaces there, it is
\* retained.
C19_MinLengthOnFragment ==
    [][CandidateStep =>
          LET f == Kept(page_sentences[ci'])
          IN  /\ Spaces(page_sentences[ci']) <= MinSpaces =>
                    processed_sentences' = processed_sentences
              /\ Spaces(f) <= MinSpaces =>
                    processed_sentences' = processed_sentences
              /\ (Spaces(f) > MinSpaces /\ AllowListed(f)) =>
                    processed_sentences' = Append(processed_sentences, f)]_vars

C19_Witness ==
    /\ xpc = "cands"
    /\ ci = 2
    /\ Len(page_sentences) = 2
    /\ Spaces(page_sentences[1]) = MinSpaces
    /\ Spaces(page_sentences[2]) = MinSpaces + 1
    /\ processed_sentences = <<page_sentences[2]>>

(***************************************************************************)
(* Claims on the course of process_pdf (lines 231-247).                    *)
(***************************************************************************)
\* No sentence gets more than max_attempts queries.
QueryCeiling == Cardinality(Queries(log)) <= max_attempts

\* C21: Bounded stall. With every call returning, no sentence gets more
\* than max_attempts query attempts, and a worker that has its finite
\* sentence list eventually returns its result.
C21_BoundedStall ==
    /\ []QueryCeiling
    /\ (pc = "init") ~> (pc = "returned")

\* process_sentence is at work on the sentence in hand.
InSentence == InRetryLoop \/ pc \in {"tables", "table"}

\* C22: The sentences of a document are handed to process_sentence one at
\* a time, in the order of the extractor's list, each once. The records of
\* the sentences left are those of sentences 1, 2, ... of the list in this
\* order; while sentence idx is in hand exactly the idx - 1 before it have
\* an outcome; the loop index only ever goes up by one, from a state where
\* the sentence before has its outcome; and process_pdf returns with one
\* record per sentence.
C22_OneAtATimeInOrder ==
    /\ [](/\ \A i \in DOMAIN hist : i <= idx /\ hist[i].sentence = sentences[i]
          /\ InSentence => Len(hist) = idx - 1
          /\ pc = "for" => Len(hist) = idx
          /\ pc = "returned" => Len(hist) = Len(sentences))
    /\ [][/\ idx' # idx =>
                (pc = "for" /\ idx' = idx + 1 /\ Len(hist) = idx /\ log' = <<>>)
          /\ Len(log') > Len(log) => (pc # "for" => Len(hist) = idx - 1)
          /\ hist' # hist =>
                (InSentence /\ Len(hist') = idx /\ idx' = idx)]_vars

C22_Witness ==
    /\ pc = "returned"
    /\ Len(sentences) = 2
    /\ sentences[1] = sentences[2]
    /\ Len(hist) = 2
    /\ hist[1].outcome = "Escaped"
    /\ hist[2].outcome = "Exhausted"

\* C23: The session is opened lazily: no session exists until a first
\* sentence is about to be queried, so a document without sentences opens
\* none.
C23_LazySessionOpen ==
    sess # <<>> => (sentences # <<>> /\ pc \notin {"extract", "init"})

\* A step in which init_driver() raises: at line 232, 112 or 118.
OpenFails ==
    \/ pc = "init" /\ sess' = sess /\ pc' # pc
    \/ /\ pc \in {"else_open", "exc_open"}
       /\ Len(log') = Len(log) + 1
       /\ Last(log').res = "fail"

\* C24: A failure to open a session is recovered from: wherever it
\* happens it does not make process_pdf raise, and it does not end the
\* processing of the sentence in hand while attempts are left.
C24_OpenFailureIsRecovered ==
    [][OpenFails =>
          /\ pc' # "raised"
          /\ hist' # hist => attempt' >= max_attempts]_vars

(***************************************************************************)
(* Claims on safe_quit and on the retry loop (lines 38-44, 70-118).        *)
(***************************************************************************)
\* The places where safe_quit is called (lines 111, 117, 245), the session
\* it is called on and where control goes when it returns.
AtSafeQuit ==
    pc \in {"else_quit", "exc_quit"} \/ (pc = "for" /\ idx = Len(sentences))

QuitTarget == IF pc = "for" THEN driver ELSE sdriver

AfterSafeQuit ==
    CASE pc = "else_quit" -> "else_open"
      [] pc = "exc_quit" -> "exc_open"
      [] OTHER -> "returned"

\* C25: safe_quit never propagates a teardown error and always sleeps
\* before it returns. Whatever driver.quit() does (teardown' is "ok" or
\* "err"), and also on a session that was closed before, the call is a
\* quit followed by the sleep, control goes on at the statement after the
\* call, no error is recorded, and the session is closed.
C25_SafeQuitSwallowsAndSleeps ==
    [][AtSafeQuit =>
          /\ teardown' \in {"ok", "err"}
          /\ Len(log') = Len(log) + 2
          /\ log'[Len(log) + 1].op = "quit" /\ log'[Len(log) + 1].sid = QuitTarget
          /\ log'[Len(log) + 2].op = "sleep"
          /\ pc' = AfterSafeQuit
          /\ error_log' = error_log /\ hist' = hist
          /\ sess'[QuitTarget] = "closed"
          /\ \A id \in DOMAIN sess : id # QuitTarget => sess'[id] = sess[id]]_vars

C25_Witness ==
    /\ pc = "exc_open"
    /\ teardown = "err"
    /\ Len(log) >= 4
    /\ \E i \in DOMAIN log :
          /\ i < Len(log) - 1
          /\ log[i].op = "quit"
          /\ log[i].sid = log[Len(log) - 1].sid
    /\ log[Len(log) - 1].op = "quit"
    /\ Last(log).op = "sleep"

(***************************************************************************)
(* Claims on the loop over the result tables (lines 129-164).              *)
(***************************************************************************)
\* The comma-separated fields of a provenance string, by the positions of
\* its commas: field n lies between comma n - 1 and comma n.
CommaCount(g) == Cardinality({i \in DOMAIN g : g[i] = ","})

CommaAt(g, n) ==
    IF n = 0 THEN 0
    ELSE IF n > CommaCount(g) THEN Len(g) + 1
    ELSE CHOOSE i \in DOMAIN g :
            g[i] = "," /\ Cardinality({j \in 1..(i - 1) : g[j] = ","}) = n - 1

FieldOf(g, n) == Trimmed(SubSeq(g, CommaAt(g, n - 1) + 1, CommaAt(g, n) - 1))

\* The block yields a record: its provenance cell is there and matches,
\* with at least 3 fields, and its passage cell is there.
YieldsRecord(t) == t.src = "match" /\ CommaCount(t.group) >= 2 /\ t.hasEng

\* C26: Block extraction. A pass of the table loop writes one record into
\* the map when the block's provenance string has at least 3 comma-separated
\* fields and the block has a passage cell: the leaf at the first three
\* fields, trimmed, gets the passage text and no other leaf changes. A
\* block failing either condition changes nothing. In both cases nothing
\* is raised or recorded as an error and the loop goes on to the next
\* block, if there is one.
C26_BlockExtraction ==
    [][pc = "table" =>
          LET t == cur_table
              key == <<FieldOf(t.group, 1), FieldOf(t.group, 2), FieldOf(t.group, 3)>>
          IN  /\ YieldsRecord(t) =>
                    /\ Leaves(data') = Leaves(data) \cup {key}
                    /\ \A path \in Leaves(data') :
                          At(data', path) = IF path = key THEN t.eng
                                            ELSE At(data, path)
              /\ ~YieldsRecord(t) => data' = data
              /\ error_log' = error_log
              /\ blocks' = blocks - 1
              /\ pc' = IF blocks > 1 THEN "table" ELSE "for"
              /\ pc' = "for" => Last(hist').outcome = "Succeeded"]_vars

C26_Witness ==
    /\ pc = "table"
    /\ ntables = 2
    /\ blocks = 1
    /\ data = entry.data
    /\ data # EmptyDict
    /\ YieldsRecord(cur_table)
    /\ cur_table.group[2] = " "

\* The query attempts of the sentence in hand that ended in Mismatch or in
\* a fault.
FailedQueries(l) == {i \in Queries(l) : l[i].res # "Match"}

\* The while loop was left because the attempts ran out.
OutOfRetries == pc = "tables" /\ ~LastQueryMatched(log)

\* C27: The attempt counter is the number of failed query attempts of the
\* sentence, each counted once, also when the open of the replacement
\* session fails; so the attempts run out only after max_attempts queries.
C27_AttemptCountsFailedQueries ==
    /\ InSentence => attempt = Cardinality(FailedQueries(log))
    /\ OutOfRetries => Cardinality(Queries(log)) >= max_attempts

\* process_sentence is about to make the first query attempt of a sentence.
AtFirstAttempt == pc = "query" /\ Queries(log) = {} /\ attempt = 0

\* C28: At the first query attempt of every sentence the session handed to
\* process_sentence is live, also for the sentence after one that ended
\* with an exception caught by process_pdf.
C28_LiveSessionAtFirstAttempt ==
    AtFirstAttempt => (sdriver = driver /\ Live(sess, driver))

\* The sessions of the worker that are open.
LiveSessions(s) == {id \in DOMAIN s : s[id] = "live"}

\* C29: A worker has at most one live session in every state, and a
\* session is opened only when every session opened before is closed.
C29_AtMostOneLiveSession ==
    /\ [](Cardinality(LiveSessions(sess)) <= 1)
    /\ [][Len(sess') > Len(sess) =>
             /\ LiveSessions(sess) = {}
             /\ LiveSessions(sess') = {Len(sess')}]_vars

C29_Witness ==
    /\ pc = "query"
    /\ idx = 2
    /\ attempt = 2
    /\ Len(sess) >= 4
    /\ LiveSessions(sess) = {sdriver}
    /\ sdriver = Len(sess)

(***************************************************************************)
(* Claims on the results handed to the merge (lines 211-221, 261-264).     *)
(***************************************************************************)
\* The map that res["data"] of document d holds now.
PartialNow(d) == MapOf(heap, pdf_results[d].data)

\* C30: A result is immutable once returned: as long as the run goes on,
\* the map and the error list of every returned result are those its
\* process_pdf call returned, before, during and after the merges.
C30_PartialsImmutable ==
    \A d \in Docs : task[d].st = "done" =>
        /\ PartialNow(d) = task[d].data
        /\ pdf_results[d].errors = task[d].errors

(***************************************************************************)
(* Claims on what a sentence leaves in the document's map (lines 120-168,  *)
(* 229-235).                                                               *)
(***************************************************************************)
\* C31: A sentence that ends Exhausted is skipped: when the while loop ends
\* because the attempts ran out, process_sentence returns at once, and the
\* document's map after the sentence is the map as it was when the sentence
\* was taken up.
C31_ExhaustedAddsNothing ==
    /\ []((pc = "for" /\ Len(hist) = idx /\ idx > 0
              /\ hist[idx].outcome = "Exhausted") => data = entry.data)
    /\ [][OutOfRetries =>
             /\ data = entry.data
             /\ data' = entry.data
             /\ pc' = "for"
             /\ Last(hist').outcome = "Exhausted"]_vars

C31_Witness ==
    /\ pc = "for"
    /\ idx = 2
    /\ Len(hist) = idx
    /\ hist[1].outcome = "Succeeded"
    /\ hist[2].outcome = "Exhausted"
    /\ data # EmptyDict
    /\ data = entry.data

\* C32: Document-local last-write-wins. At every point of the processing of
\* a document, and so when it has been processed, the leaves of its map are
\* the key triples of the MatchRecords emitted so far, each holding the
\* passage text of the last record with that triple in processing order
\* (sentence order, then block order); and a step never removes a leaf, and
\* changes the text only of the leaf whose triple the record of that step
\* carries.
C32_DocumentLastWriteWins ==
    /\ [](/\ Leaves(data) = DOMAIN written
          /\ \A path \in Leaves(data) : At(data, path) = written[path])
    /\ [][\A path \in Leaves(data) :
             /\ path \in Leaves(data')
             /\ At(data', path) # At(data, path) =>
                   /\ pc = "table"
                   /\ Emits(cur_table)
                   /\ path = KeysOf(cur_table)]_vars

C32_Witness ==
    /\ pc = "returned"
    /\ idx = 2
    /\ Cardinality(Leaves(data)) = 2
    /\ \E path \in Leaves(entry.data) :
          /\ Leaves(entry.data) = {path}
          /\ At(data, path) # At(entry.data, path)

(***************************************************************************)
(* Claims on merge_results as a function (lines 211-221; specification     *)
(* SpecMerge).                                                             *)
(***************************************************************************)
\* The values dict1 and dict2 hold.
DictOneValue(h) == ValueOf(h, RefItem(DictOne)).sub

DictTwoValue(h) == ValueOf(h, RefItem(DictTwo)).sub

BothMaps(a, p, k) == k \in DOMAIN a /\ k \in DOMAIN p /\ ~a[k].leaf /\ ~p[k].leaf

\* The deep merge of two dict values: the keys of both; where both hold a
\* dict, the deep merge of the two; elsewhere the value of p if it has one.
RECURSIVE DeepMerge(_, _)
DeepMerge(a, p) ==
    [k \in (DOMAIN a) \cup (DOMAIN p) |->
        IF BothMaps(a, p, k) THEN DictValue(DeepMerge(a[k].sub, p[k].sub))
        ELSE IF k \in DOMAIN p THEN p[k]
        ELSE a[k]]

\* C33: merge_results recurses only where both sides hold a dict at the same
\* key: there dict1 keeps its own dict object, which becomes the merge of
\* the two. At every other key of dict2 the value of dict2 replaces that of
\* dict1 entirely, a text replacing a whole dict and a dict replacing a
\* text. The keys that dict2 does not have keep their values.
C33_RecurseOnlyOnMaps ==
    [][mi' = mi + 1 =>
          LET a == DictOneValue(heap)
              p == DictTwoValue(heap)
              r == DictOneValue(heap')
          IN  /\ DOMAIN r = (DOMAIN a) \cup (DOMAIN p)
              /\ \A k \in DOMAIN p :
                    IF BothMaps(a, p, k)
                    THEN /\ heap'[DictOne][k] = heap[DictOne][k]
                         /\ r[k] = DictValue(DeepMerge(a[k].sub, p[k].sub))
                    ELSE /\ heap'[DictOne][k] = heap[DictTwo][k]
                         /\ r[k] = p[k]
              /\ \A k \in (DOMAIN a) \ (DOMAIN p) : r[k] = a[k]]_vars

\* After a call: at "a" a text has replaced the dict that dict1 held (the
\* object is still on the heap), at "b" dict1 holds the dict of dict2.
C33_Witness ==
    /\ mpc = "merge_results"
    /\ mi = 1
    /\ DOMAIN heap[DictOne] = MergeKeys
    /\ heap[DictOne]["a"].leaf
    /\ <<1, "a">> \in DOMAIN heap
    /\ DOMAIN heap[<<1, "a">>] = MergeKeys
    /\ heap[DictOne]["b"] = RefItem(<<2, "b">>)
    /\ heap[<<2, "b">>] # EmptyDict

\* C34: merge_results is idempotent and has the empty dict as identity:
\* merging an empty dict2 leaves the value of dict1 as it was, merging dict2
\* into an empty dict1 gives dict1 the value of dict2, and a second merge
\* of the same dict2 leaves the value of dict1 as the first one made it.
C34_MergeIdempotentWithIdentity ==
    [][mi' = mi + 1 =>
          LET a == DictOneValue(heap)
              p == DictTwoValue(heap)
              r == DictOneValue(heap')
          IN  /\ DOMAIN p = {} => r = a
              /\ DOMAIN a = {} => r = p
              /\ mi >= 1 => r = a]_vars

\* After the second call, on two dicts that each held a dict at "a" and
\* differed at "b".
C34_Witness ==
    /\ mpc = "merge_results"
    /\ mi = 2
    /\ DOMAIN heap[DictOne] = MergeKeys
    /\ heap[DictOne]["a"] = RefItem(<<1, "a">>)
    /\ <<2, "a">> \in DOMAIN heap
    /\ DOMAIN heap[<<2, "a">>] = {"a"}
    /\ DOMAIN heap[<<1, "a">>] = MergeKeys
    /\ "b" \in DOMAIN heap[DictTwo]
    /\ heap[DictOne]["b"] = heap[DictTwo]["b"]
    /\ DictOneValue(heap) # DictTwoValue(heap)

(***************************************************************************)
(* Claims on the list the extractor returns (lines 183-208).               *)
(***************************************************************************)
\* The sentences of one page, from its raw text: what is kept of each split
\* candidate, in split order, when it passes the two filters.
Passes(f) == Spaces(f) > MinSpaces /\ AllowListed(f)

SentencesOfPage(raw) ==
    LET cands == ReSplit(RemoveHangul(ReplaceQuotes(raw)))
    IN  SelectSeq([i \in DOMAIN cands |-> Kept(cands[i])], Passes)

\* The sentences of the first n pages read, page after page.
RECURSIVE SentencesUpTo(_)
SentencesUpTo(n) ==
    IF n = 0 THEN <<>>
    ELSE SentencesUpTo(n - 1) \o SentencesOfPage(Concat(pdf_pages[n]))

\* C35: The list returned is in page order, then split order within a page:
\* between two pages, and at the return, it is the sentences of page 1 in
\* split order, then those of page 2, and so on; while a page is in hand,
\* the sentences found on it so far are a prefix of its own. A page
\* without text adds nothing and the loop goes on to the page after it.
C35_PageThenSplitOrder ==
    /\ [](xpc \in {"pages", "returned"} =>
             ext_sentences = SentencesUpTo(Len(pdf_pages)))
    /\ [](xpc = "cands" =>
             LET own == SentencesOfPage(Concat(Last(pdf_pages)))
             IN  /\ Len(processed_sentences) <= Len(own)
                 /\ processed_sentences = SubSeq(own, 1, Len(processed_sentences)))
    /\ [][/\ xpc' = "cands" => ext_sentences' = ext_sentences
          /\ (Len(pdf_pages') = Len(pdf_pages) + 1
                 /\ Concat(Last(pdf_pages')) = <<>>) =>
                /\ ext_sentences' = ext_sentences
                /\ xpc' = "pages"]_vars

C35_Witness ==
    /\ xpc = "returned"
    /\ Len(pdf_pages) = 3
    /\ pdf_pages[2] = <<>>
    /\ ext_sentences = <<WordsBack, FiveWords>>
    /\ SentencesOfPage(Concat(pdf_pages[1])) = <<WordsBack>>
    /\ SentencesOfPage(Concat(pdf_pages[3])) = <<FiveWords>>

\* C36: Every sentence emitted is non-empty, begins and ends with a
\* character that is not white space, holds at least 4 space characters,
\* and holds none of the characters the text is split at: the full stop,
\* the exclamation mark, the question mark, the newline.
C36_EmittedSentenceShape ==
    \A s \in Emitted :
        /\ s # <<>>
        /\ Len(s) >= 1 => (Head(s) \notin WhiteSpace /\ Last(s) \notin WhiteSpace)
        /\ Spaces(s) >= MinSpaces + 1
        /\ \A i \in DOMAIN s : s[i] \notin {".", "!", "?", "\n"}

C36_Witness ==
    /\ xpc = "returned"
    /\ Len(pdf_pages) = 1
    /\ pdf_pages[1] = << <<" ">>, FiveWords, <<".">> >>
    /\ ext_sentences = <<FiveWords>>

(***************************************************************************)
(* Claims on the dispatch of the documents and on the pool (lines          *)
(* 255-265).                                                               *)
(***************************************************************************)
\* How many times d occurs in a list of documents.
Count(l, d) == Cardinality({i \in DOMAIN l : l[i] = d})

\* C37: Every document found gets exactly one process_pdf call and every
\* result returned is merged exactly once: no document is started twice, no
\* result is merged twice, only returned results are merged, and when the
\* run has ended every document has been started and every result that a
\* process_pdf call returned has been merged.
C37_DispatchedAndMergedOnce ==
    /\ \A d \in Docs :
          /\ Count(started, d) <= 1
          /\ Count(merged, d) <= 1
          /\ Count(merged, d) = 1 => task[d].st = "done"
    /\ RunEnded =>
          \A d \in Docs :
              /\ Count(started, d) = 1
              /\ task[d].st = "done" => Count(merged, d) = 1

\* The documents whose process_pdf call is running.
Running == {d \in Docs : task[d].st = "running"}

\* C38: At any time at most PoolProcesses documents are being processed,
\* and, only a running call holding a session, at most PoolProcesses
\* sessions are live across the workers of the run.
C38_PoolSizeBound ==
    /\ Cardinality(Running) <= PoolProcesses
    /\ live \subseteq Running
    /\ Cardinality(live) <= PoolProcesses

C38_Witness ==
    /\ mpc = "map"
    /\ Cardinality(Running) = PoolProcesses
    /\ live = Running
    /\ \E d \in Docs : task[d].st = "pending"

(***************************************************************************)
(* Claims on insert_json_to_db (specification SpecInsert).                 *)
(***************************************************************************)
\* The keys are numerals whose values are exactly 1..n, n >= 2.
ContiguousFromOne(keys) ==
    /\ Len(keys) >= 2
    /\ \A i \in DOMAIN keys : IsNumeral(keys[i])
    /\ {int(keys[i]) : i \in DOMAIN keys} = 1..Len(keys)

\* C39: insert_json_to_db executes INSERTs for a parent entry only when the
\* keys of its content are exactly the numbers 1..n with n >= 2: an entry
\* without content, with a single passage, or with a gap in its numbering
\* gets no INSERT at all.
C39_InsertOnlyContiguous ==
    executed # <<>> =>
        /\ p_item.has_content
        /\ ContiguousFromOne(p_item.content)

====
